---- MODULE Spec2Model ----
(***************************************************************************)
(* A model of the sbpf-dbg debug-execution engine: the stepping controller *)
(* Debugger::run (src/src/debugger.rs), the breakpoint sets, the compute   *)
(* meter of DebugContextObject (src/src/main.rs) and the LineMap lookups   *)
(* (src/crates/debugger/src/parser.rs) the controller goes through.        *)
(*                                                                         *)
(* The sBPF interpreter is an external crate.  Its step primitive is       *)
(* modelled by its interface: one call either advances r11 (and may change *)
(* r0), or ends the program with Ok(r0), or ends it with Err; every call   *)
(* adds one to vm.due_insn_count and leaves the compute meter alone.       *)
(***************************************************************************)
EXTENDS Integers, Sequences, FiniteSets, TLC

\* ------------------------------------------------------------- bounds
\* Number of instruction slots of the program (r11 ranges over 0..NPc-1).
NPc == 3
\* Largest source line a front end asks for.
MaxLine == 2
\* The compute budget the meter starts with.
Budget == 2
\* Cap on vm.due_insn_count (it only grows across consecutive failing steps).
MaxDue == 1

\* ------------------------------------------------------- program constants
INSN_SIZE == 8
REG_COUNT == 12

\* ------------------------------------------------------------- options
None == [some |-> FALSE, val |-> 0]
Some(x) == [some |-> TRUE, val |-> x]

\* ------------------------------------------------------------- value sets
PcIndices == 0 .. (NPc - 1)
PcVals == {i * INSN_SIZE : i \in PcIndices}
LineVals == 0 .. MaxLine
\* The values a general-purpose register is given: zero and non-zero.
RegVals == {0, 1}

\* ------------------------------------------------------------- LineMap
\* One DWARF line row that is not an end-sequence: (address, file, line, column).
Row(address, line) == [address |-> address, file |-> "a.s", line |-> line, column |-> 0]

\* LineMap::new
LineMapNew ==
  [ address_to_line   |-> << >>,
    line_to_addresses |-> << >>,
    dwarf_to_pc       |-> << >>,
    pc_to_dwarf       |-> << >>,
    source_locations  |-> << >> ]

\* HashMap::insert
MapInsert(m, k, v) == [x \in (DOMAIN m) \cup {k} |-> IF x = k THEN v ELSE m[x]]

\* InsertRow keeping the source location an address already has.
InsertRow_first_location(m, row) ==
  [ m EXCEPT
      !.address_to_line   = MapInsert(m.address_to_line, row.address, row.line),
      !.line_to_addresses =
          MapInsert(m.line_to_addresses, row.line,
                    IF row.line \in DOMAIN m.line_to_addresses
                    THEN Append(m.line_to_addresses[row.line], row.address)
                    ELSE <<row.address>>),
      !.source_locations  =
          IF row.address \in DOMAIN m.source_locations THEN m.source_locations
          ELSE MapInsert(m.source_locations, row.address,
                         [file |-> row.file, line |-> row.line, column |-> row.column]) ]

\* The body of the row loop of parse_debug_info_from_object.
InsertRow(m, row) ==
  [ m EXCEPT
      !.address_to_line   = MapInsert(m.address_to_line, row.address, row.line),
      !.line_to_addresses =
          MapInsert(m.line_to_addresses, row.line,
                    IF row.line \in DOMAIN m.line_to_addresses
                    THEN Append(m.line_to_addresses[row.line], row.address)
                    ELSE <<row.address>>),
      !.source_locations  =
          MapInsert(m.source_locations, row.address,
                    [file |-> row.file, line |-> row.line, column |-> row.column]) ]

RECURSIVE ParseRows(_, _)
ParseRows(m, rows) ==
  IF rows = << >> THEN m ELSE ParseRows(InsertRow(m, Head(rows)), Tail(rows))

\* LineMap::build_pc_mapping: the identity on the recorded addresses.
build_pc_mapping(m) ==
  [ m EXCEPT
      !.dwarf_to_pc = [a \in DOMAIN m.address_to_line |-> a],
      !.pc_to_dwarf = [a \in DOMAIN m.address_to_line |-> a] ]

\* LineMap::from_elf_data on an object whose line program yields `rows`.
from_elf_data(rows) == build_pc_mapping(ParseRows(LineMapNew, rows))

\* LineMap::get_line_for_address
get_line_for_address(m, address) ==
  IF address \in DOMAIN m.address_to_line THEN Some(m.address_to_line[address]) ELSE None

\* LineMap::get_line_for_pc
LineMap_get_line_for_pc(m, pc) ==
  IF pc \in DOMAIN m.pc_to_dwarf
  THEN get_line_for_address(m, m.pc_to_dwarf[pc])
  ELSE get_line_for_address(m, pc)

RECURSIVE FilterMapPc(_, _)
FilterMapPc(m, addrs) ==
  IF addrs = << >> THEN << >>
  ELSE IF Head(addrs) \in DOMAIN m.dwarf_to_pc
       THEN <<m.dwarf_to_pc[Head(addrs)]>> \o FilterMapPc(m, Tail(addrs))
       ELSE FilterMapPc(m, Tail(addrs))

\* LineMap::get_pcs_for_line
LineMap_get_pcs_for_line(m, line) ==
  IF line \in DOMAIN m.line_to_addresses
  THEN FilterMapPc(m, m.line_to_addresses[line])
  ELSE << >>

\* The line tables a debug session is started with: a program whose every
\* instruction has one line, and one whose line program lists an address twice,
\* under two lines.
RowsPlain == << Row(0, 1), Row(8, 2), Row(16, 2) >>
RowsShared == << Row(8, 1), Row(8, 2), Row(0, 2) >>

\* main: `LineMap::from_elf_file(debug_file_path).ok()`
LineMapChoices == { None, Some(from_elf_data(RowsPlain)), Some(from_elf_data(RowsShared)) }

SeqRange(s) == {s[i] : i \in 1 .. Len(s)}


Min(a, b) == IF a < b THEN a ELSE b

\* ------------------------------------------------------------- events
\* DebugEvent.  An Error carries a message built from the PC the step was tried at.
NoEvent == [type |-> "None", pc |-> 0, line |-> None, code |-> 0]
Breakpoint(pc, line) == [type |-> "Breakpoint", pc |-> pc, line |-> line, code |-> 0]
StepEvent(pc, line) == [type |-> "Step", pc |-> pc, line |-> line, code |-> 0]
Exit(code) == [type |-> "Exit", pc |-> 0, line |-> None, code |-> code]
Error(pc) == [type |-> "Error", pc |-> pc, line |-> None, code |-> 0]

\* ProgramResult
ProgramResultOk(v) == [ok |-> TRUE, val |-> v]
ProgramResultErr == [ok |-> FALSE, val |-> 0]

\* ------------------------------------------------------------- state
VARIABLES
  dbg,      \* the Debugger record: its fields, the interpreter's registers, the vm's
            \* due_insn_count and program_result, and the context object's compute meter
  running,  \* TRUE while a run() in Continue mode is inside its loop
  event,    \* the DebugEvent the preceding operation returned, NoEvent if it returned none
  nexec,    \* interpreter.step() calls made by the current or preceding run(), 2 = two or more
  xpc,      \* the PC of the first instruction that run() handed to interpreter.step()
  front,    \* the front end that main started: which one, whether its loop is still
            \* going, whether it was sent quit, and the response line it wrote last
  calc      \* the call of a query or of a tool that runs apart from the debug session: its
            \* name, what it was given and what it returned; NoCalc when none was made

vars == <<dbg, running, event, nexec, xpc, front, calc>>

\* Option<Vec<ROData>> with nothing in it.
NoRodata == [some |-> FALSE, val |-> << >>]

\* main: the vm's registers and meter before Debugger::new, then Debugger::new.
\* r1 holds the address of the input region, which the engine never reads; it is
\* kept at 0 here like the other general-purpose registers.
\* call_frames are the target PCs of vm.call_frames[..vm.call_depth]: the program has
\* made no call yet.  rodata stays None, as for an object file whose read-only data
\* parse_rodata could not read.
Debugger_new(entry, line_map) ==
  [ reg                    |-> [i \in 0 .. (REG_COUNT - 1) |->
                                  IF i = 11 THEN entry ELSE 0],
    due_insn_count         |-> 0,
    program_result         |-> ProgramResultOk(0),
    compute_meter          |-> Budget,
    breakpoints            |-> {},
    line_breakpoints       |-> {},
    dwarf_line_map         |-> line_map,
    debug_mode             |-> "Continue",
    stopped                |-> FALSE,
    exit_code              |-> 0,
    at_breakpoint          |-> FALSE,
    last_breakpoint_pc     |-> None,
    initial_compute_budget |-> Budget,
    call_frames            |-> << >>,
    rodata                 |-> NoRodata ]

\* Debugger::get_pc
get_pc(d) == d.reg[11] * INSN_SIZE

\* get_line_for_pc answering line 0 where there is no LineMap.
get_line_for_pc_zero(d, pc) ==
  IF d.dwarf_line_map.some THEN LineMap_get_line_for_pc(d.dwarf_line_map.val, pc) ELSE Some(0)

\* Debugger::get_line_for_pc
get_line_for_pc(d, pc) ==
  IF d.dwarf_line_map.some THEN LineMap_get_line_for_pc(d.dwarf_line_map.val, pc) ELSE None

\* Debugger::get_pcs_for_line
get_pcs_for_line(d, line) ==
  IF d.dwarf_line_map.some THEN LineMap_get_pcs_for_line(d.dwarf_line_map.val, line) ELSE << >>

\* Debugger::set_debug_mode
set_debug_mode(d, mode) == [d EXCEPT !.debug_mode = mode]

\* u64::saturating_sub
saturating_sub(a, b) == IF a >= b THEN a - b ELSE 0

\* consume with the amount added to the meter instead of taken from it.
consume_add(meter, amount) == meter + amount

\* DebugContextObject::consume
consume(meter, amount) == saturating_sub(meter, amount)

\* DebugContextObject::get_remaining
get_remaining(d) == d.compute_meter

\* consume_instruction_cost without the reset of vm.due_insn_count.
consume_instruction_cost_noreset(d) ==
  IF d.due_insn_count > 0
  THEN [d EXCEPT !.compute_meter = consume(d.compute_meter, d.due_insn_count)]
  ELSE d

\* Debugger::consume_instruction_cost
consume_instruction_cost(d) ==
  IF d.due_insn_count > 0
  THEN [d EXCEPT !.compute_meter = consume(d.compute_meter, d.due_insn_count),
                 !.due_insn_count = 0]
  ELSE d

\* Debugger::get_compute_units
get_compute_units(d) ==
  LET remaining == get_remaining(d)
      total == d.initial_compute_budget
  IN [total |-> total, used |-> saturating_sub(total, remaining), remaining |-> remaining]

\* ------------------------------------------------------------- interpreter
\* What one call of the interpreter's step primitive can do.
StepOutcomes ==
  [kind : {"ok"}, r11 : PcIndices, r0 : RegVals] \cup [kind : {"exit", "err"}, r11 : {0}, r0 : {0}]

\* Interpreter::step with outcome o: the new record and the boolean it returns.
interpreter_step(d, o) ==
  CASE o.kind = "ok" ->
         [d |-> [d EXCEPT !.reg = [@ EXCEPT ![11] = o.r11, ![0] = o.r0],
                          !.due_insn_count = @ + 1],
          ok |-> TRUE]
    [] o.kind = "exit" ->
         [d |-> [d EXCEPT !.program_result = ProgramResultOk(d.reg[0]),
                          !.due_insn_count = @ + 1],
          ok |-> FALSE]
    [] OTHER ->
         [d |-> [d EXCEPT !.program_result = ProgramResultErr,
                          !.due_insn_count = @ + 1],
          ok |-> FALSE]

\* The interpreter's own limit: step fails at once when vm.due_insn_count has reached
\* vm.previous_instruction_meter, which main sets to the initial budget and nothing
\* changes afterwards.
meter_exceeded(d) == d.due_insn_count >= d.initial_compute_budget

\* due_insn_count is reset by every successful step and every exit, so it grows
\* only over consecutive failing steps; those are cut off at MaxDue.  A step at the
\* interpreter's limit can only fail.
OutcomeAllowed(d, o) ==
  /\ o.kind = "err" => d.due_insn_count < MaxDue
  /\ meter_exceeded(d) => o.kind = "err"

\* ------------------------------------------------------------- Debugger::run
\* The result of a pass through run(): the record, the event returned (NoEvent when
\* the Continue loop goes round again) and the number of interpreter.step() calls.
RunResult(d, ev, n) == [d |-> d, ev |-> ev, n |-> n]

\* The pre-step condition with == written for != in the debounce test.
breakpoint_check_eq(d, current_pc) ==
  current_pc \in d.breakpoints /\ d.last_breakpoint_pc = Some(current_pc)

\* `self.breakpoints.contains(&current_pc) && self.last_breakpoint_pc != Some(current_pc)`
breakpoint_check(d, current_pc) ==
  current_pc \in d.breakpoints /\ d.last_breakpoint_pc # Some(current_pc)

\* The pre-step stop without the two assignments that record it.
enter_break_unrecorded(d, pc) ==
  RunResult(d, Breakpoint(pc, get_line_for_pc(d, pc)), 0)

\* The body of the pre-step check: stop without executing.
enter_break(d, pc) ==
  RunResult([d EXCEPT !.at_breakpoint = TRUE, !.last_breakpoint_pc = Some(pc)],
            Breakpoint(pc, get_line_for_pc(d, pc)), 0)

\* clear_break without the assignment to last_breakpoint_pc.
clear_break_flag_only(d) == [d EXCEPT !.at_breakpoint = FALSE]

\* clear_break without the assignment to at_breakpoint.
clear_break_pc_only(d) == [d EXCEPT !.last_breakpoint_pc = None]

\* After a successful step from a breakpoint: both debounce fields are cleared.
clear_break(d) == [d EXCEPT !.at_breakpoint = FALSE, !.last_breakpoint_pc = None]

\* step_failed passing a program fault off as a normal exit.
step_failed_as_exit(d, current_pc) ==
  IF d.program_result.ok
  THEN RunResult(consume_instruction_cost(d), Exit(d.program_result.val), 1)
  ELSE RunResult(d, Exit(0), 1)

\* The two arms every failed step ends in: Exit after consuming, Error without.
step_failed(d, current_pc) ==
  IF d.program_result.ok
  THEN RunResult(consume_instruction_cost(d), Exit(d.program_result.val), 1)
  ELSE RunResult(d, Error(current_pc), 1)

\* The at_breakpoint branch of Step mode without the second look at the new PC.
resume_Step_unexamined(d, o) ==
  LET current_pc == get_pc(d)
      s == interpreter_step(d, o)
  IN IF s.ok
     THEN LET c == clear_break(consume_instruction_cost(s.d))
              new_pc == get_pc(c)
          IN RunResult(c, StepEvent(new_pc, get_line_for_pc(c, new_pc)), 1)
     ELSE step_failed(s.d, current_pc)

\* The at_breakpoint branch of Step mode reporting the PC it executed, as the
\* branch after the pre-step check does.
resume_Step_old_pc(d, o) ==
  LET current_pc == get_pc(d)
      s == interpreter_step(d, o)
  IN IF s.ok
     THEN LET c == clear_break(consume_instruction_cost(s.d))
              new_pc == get_pc(c)
          IN IF new_pc \in c.breakpoints
             THEN RunResult([c EXCEPT !.at_breakpoint = TRUE,
                                      !.last_breakpoint_pc = Some(new_pc)],
                            Breakpoint(new_pc, get_line_for_pc(c, new_pc)), 1)
             ELSE RunResult(c, StepEvent(current_pc, get_line_for_pc(c, current_pc)), 1)
     ELSE step_failed(s.d, current_pc)

\* DebugMode::Step, the at_breakpoint branch.
resume_Step(d, o) ==
  LET current_pc == get_pc(d)
      s == interpreter_step(d, o)
  IN IF s.ok
     THEN LET c == clear_break(consume_instruction_cost(s.d))
              new_pc == get_pc(c)
          IN IF new_pc \in c.breakpoints
             THEN RunResult([c EXCEPT !.at_breakpoint = TRUE,
                                      !.last_breakpoint_pc = Some(new_pc)],
                            Breakpoint(new_pc, get_line_for_pc(c, new_pc)), 1)
             ELSE RunResult(c, StepEvent(new_pc, get_line_for_pc(c, new_pc)), 1)
     ELSE step_failed(s.d, current_pc)

\* The Step-mode step reporting the PC it arrived at instead of the one it executed.
advance_Step_new_pc(d, o) ==
  LET current_pc == get_pc(d)
      s == interpreter_step(d, o)
  IN IF s.ok
     THEN LET c == consume_instruction_cost(s.d)
          IN RunResult(c, StepEvent(get_pc(c), get_line_for_pc(c, get_pc(c))), 1)
     ELSE step_failed(s.d, current_pc)

\* DebugMode::Step, the step after the pre-step check.
advance_Step(d, o) ==
  LET current_pc == get_pc(d)
      s == interpreter_step(d, o)
  IN IF s.ok
     THEN LET c == consume_instruction_cost(s.d)
          IN RunResult(c, StepEvent(current_pc, get_line_for_pc(c, current_pc)), 1)
     ELSE step_failed(s.d, current_pc)

\* run() with debug_mode = Step.
run_Step(d, o) ==
  IF d.at_breakpoint THEN resume_Step(d, o)
  ELSE IF breakpoint_check(d, get_pc(d)) THEN enter_break(d, get_pc(d))
  ELSE advance_Step(d, o)

\* DebugMode::Continue, the at_breakpoint branch of the loop body.
resume_Continue(d, o) ==
  LET current_pc == get_pc(d)
      s == interpreter_step(d, o)
  IN IF s.ok
     THEN RunResult(clear_break(consume_instruction_cost(s.d)), NoEvent, 1)
     ELSE step_failed(s.d, current_pc)

\* The Continue-mode step returning after every instruction, as Step mode does.
advance_Continue_returning(d, o) ==
  LET current_pc == get_pc(d)
      s == interpreter_step(d, o)
  IN IF s.ok
     THEN LET c == consume_instruction_cost(s.d)
          IN RunResult(c, StepEvent(current_pc, get_line_for_pc(c, current_pc)), 1)
     ELSE step_failed(s.d, current_pc)

\* DebugMode::Continue, the step after the pre-step check.
advance_Continue(d, o) ==
  LET current_pc == get_pc(d)
      s == interpreter_step(d, o)
  IN IF s.ok
     THEN RunResult(consume_instruction_cost(s.d), NoEvent, 1)
     ELSE step_failed(s.d, current_pc)

\* One pass through the loop body of run() with debug_mode = Continue.
run_Continue(d, o) ==
  IF d.at_breakpoint THEN resume_Continue(d, o)
  ELSE IF breakpoint_check(d, get_pc(d)) THEN enter_break(d, get_pc(d))
  ELSE advance_Continue(d, o)

\* ------------------------------------------------------------- breakpoints
\* Debugger::set_breakpoint
set_breakpoint(d, pc) == [d EXCEPT !.breakpoints = @ \cup {pc}]

\* set_breakpoint_at_line recording the line whether or not it has PCs.
set_breakpoint_at_line_any(d, line) ==
  IF d.dwarf_line_map.some
  THEN LET pcs == LineMap_get_pcs_for_line(d.dwarf_line_map.val, line)
       IN [d EXCEPT !.line_breakpoints = @ \cup {line},
                    !.breakpoints = @ \cup SeqRange(pcs)]
  ELSE d

\* Debugger::set_breakpoint_at_line
set_breakpoint_at_line(d, line) ==
  IF d.dwarf_line_map.some
  THEN LET pcs == LineMap_get_pcs_for_line(d.dwarf_line_map.val, line)
       IN IF pcs # << >>
          THEN [d EXCEPT !.line_breakpoints = @ \cup {line},
                         !.breakpoints = @ \cup SeqRange(pcs)]
          ELSE d
  ELSE d

\* remove_breakpoint_at_line also ending the stop at a breakpoint it removes.
remove_breakpoint_at_line_unstopping(d, line) ==
  IF d.dwarf_line_map.some
  THEN LET pcs == LineMap_get_pcs_for_line(d.dwarf_line_map.val, line)
       IN IF pcs # << >>
          THEN [d EXCEPT !.line_breakpoints = @ \ {line},
                         !.breakpoints = @ \ SeqRange(pcs),
                         !.at_breakpoint = @ /\ get_pc(d) \notin SeqRange(pcs),
                         !.last_breakpoint_pc =
                            IF @.some /\ @.val \in SeqRange(pcs) THEN None ELSE @]
          ELSE d
  ELSE d

\* Debugger::remove_breakpoint_at_line
remove_breakpoint_at_line(d, line) ==
  IF d.dwarf_line_map.some
  THEN LET pcs == LineMap_get_pcs_for_line(d.dwarf_line_map.val, line)
       IN IF pcs # << >>
          THEN [d EXCEPT !.line_breakpoints = @ \ {line},
                         !.breakpoints = @ \ SeqRange(pcs)]
          ELSE d
  ELSE d

\* The Result of set_breakpoint_at_line and of remove_breakpoint_at_line: Ok(()) on
\* every path.
line_breakpoint_result(d, line) == [ok |-> TRUE, err |-> ""]

\* clear_breakpoints emptying both sets whether or not a LineMap exists.
clear_breakpoints_all(d, file) ==
  [d EXCEPT !.breakpoints = {}, !.line_breakpoints = {}]

\* DebuggerInterface::clear_breakpoints for Debugger
clear_breakpoints(d, file) ==
  IF d.dwarf_line_map.some
  THEN [d EXCEPT
          !.breakpoints = @ \ UNION {SeqRange(LineMap_get_pcs_for_line(d.dwarf_line_map.val, l)) :
                                       l \in d.line_breakpoints},
          !.line_breakpoints = {}]
  ELSE [d EXCEPT !.breakpoints = {}, !.line_breakpoints = {}]

\* Debugger::get_register
get_register(d, idx) == IF idx \in DOMAIN d.reg THEN Some(d.reg[idx]) ELSE None

\* set_register writing whatever the index.
set_register_unchecked(d, idx, value) ==
  [d |-> [d EXCEPT !.reg = MapInsert(@, idx, value)], ok |-> TRUE]

\* Debugger::set_register: the record and whether the call returned Ok.
set_register(d, idx, value) ==
  IF idx \in DOMAIN d.reg
  THEN [d |-> [d EXCEPT !.reg = [@ EXCEPT ![idx] = value]], ok |-> TRUE]
  ELSE [d |-> d, ok |-> FALSE]

\* ------------------------------------------------------------- JSON values
\* serde_json::Value.  Every value has the same fields, so that values of different
\* JSON types can sit in one set: t is the JSON type, s / n / b the content of a
\* string / number / boolean, a the elements of an array, o the members of an object.
JNull == [t |-> "null", s |-> "", n |-> 0, b |-> FALSE, a |-> << >>, o |-> {}]
JStr(s) == [JNull EXCEPT !.t = "str", !.s = s]
JNum(n) == [JNull EXCEPT !.t = "num", !.n = n]
JBool(b) == [JNull EXCEPT !.t = "bool", !.b = b]
JArr(a) == [JNull EXCEPT !.t = "arr", !.a = a]
\* json!({...}): an object from its members, each a key and a value.
JObj(members) == [JNull EXCEPT !.t = "obj", !.o = members]
Member(k, v) == [k |-> k, v |-> v]
\* Serialize for Option<usize>: null or the number.
JOpt(opt) == IF opt.some THEN JNum(opt.val) ELSE JNull

\* Option<Value> and Option<String> with nothing in them.
NoneJ == [some |-> FALSE, val |-> JNull]
NoneStr == [some |-> FALSE, val |-> ""]

\* Map::contains_key
contains_key(obj, k) == \E m \in obj.o : m.k = k
\* Value::get(key) on an object, Value::get(index) on an array
get_key(v, k) ==
  IF v.t = "obj" /\ contains_key(v, k)
  THEN Some((CHOOSE m \in v.o : m.k = k).v)
  ELSE NoneJ
get_index(v, i) ==
  IF v.t = "arr" /\ i < Len(v.a) THEN Some(v.a[i + 1]) ELSE NoneJ
\* Option::and_then(Value::as_str), Option::and_then(Value::as_u64)
and_then_as_str(opt) ==
  IF opt.some /\ opt.val.t = "str" THEN Some(opt.val.s) ELSE NoneStr
and_then_as_u64(opt) ==
  IF opt.some /\ opt.val.t = "num" THEN Some(opt.val.n) ELSE None
\* Option::unwrap_or
unwrap_or(opt, default) == IF opt.some THEN opt.val ELSE default

\* format!("{:016x}", n) and its like: n in w lower-case hexadecimal digits.
HexDigits == <<"0", "1", "2", "3", "4", "5", "6", "7", "8", "9", "a", "b", "c", "d", "e", "f">>
RECURSIVE Hex(_, _)
Hex(n, w) == IF w = 0 THEN "" ELSE Hex(n \div 16, w - 1) \o HexDigits[(n % 16) + 1]

\* The Debug text of the interpreter's error, which the engine only passes on.
ErrDebug == "EbpfError"
\* format!("Program error at PC 0x{:016x}: {:?}", current_pc, err)
error_msg(current_pc) == "Program error at PC 0x" \o Hex(current_pc, 16) \o ": " \o ErrDebug
\* format!("Register index {} out of range", idx)
range_error(idx) == "Register index " \o ToString(idx) \o " out of range"

\* ------------------------------------------------------------- facade payloads
\* The DebuggerResult a pass of run() returns with: every return in run() is Ok(event).
run_result(r) == [ok |-> TRUE, val |-> r.ev]

\* The arm for Err(e) of the two matches on self.run().
debugger_error_payload ==
  JObj({Member("type", JStr("error")), Member("message", JStr("DebuggerError"))})

\* The arms for the four events, as continue has them.
event_payload(ev) ==
  CASE ev.type = "Step" ->
         JObj({Member("type", JStr("step")), Member("pc", JNum(ev.pc)),
               Member("line", JOpt(ev.line))})
    [] ev.type = "Breakpoint" ->
         JObj({Member("type", JStr("breakpoint")), Member("pc", JNum(ev.pc)),
               Member("line", JOpt(ev.line))})
    [] ev.type = "Exit" ->
         JObj({Member("type", JStr("exit")), Member("code", JNum(ev.code))})
    [] OTHER ->
         JObj({Member("type", JStr("error")), Member("message", JStr(error_msg(ev.pc)))})

\* get_compute_units as the JSON object it returns.
compute_units_json(d) ==
  LET cu == get_compute_units(d)
  IN JObj({Member("total", JNum(cu.total)), Member("used", JNum(cu.used)),
           Member("remaining", JNum(cu.remaining))})

\* DebuggerInterface::step: the payload for the result of run(), d the engine after it.
step_payload(res, d) ==
  IF ~res.ok THEN debugger_error_payload
  ELSE IF res.val.type = "Exit"
  THEN JObj(event_payload(res.val).o \cup {Member("compute_units", compute_units_json(d))})
  ELSE event_payload(res.val)

\* DebuggerInterface::continue: the payload for the result of run().
continue_payload(res) ==
  IF ~res.ok THEN debugger_error_payload ELSE event_payload(res.val)

\* DI_set_breakpoint with the breakpoint reported as not verified.
DI_set_breakpoint_unverified(d, file, line) ==
  [d |-> set_breakpoint_at_line(d, line),
   payload |-> JObj({Member("type", JStr("setBreakpoint")), Member("file", JStr(file)),
                     Member("line", JNum(line)), Member("verified", JBool(FALSE))})]

\* DebuggerInterface::set_breakpoint: the engine afterwards and the payload.
DI_set_breakpoint(d, file, line) ==
  LET res == line_breakpoint_result(d, line)
      base == {Member("type", JStr("setBreakpoint")), Member("file", JStr(file)),
               Member("line", JNum(line))}
  IN [d |-> set_breakpoint_at_line(d, line),
      payload |-> IF res.ok
                  THEN JObj(base \cup {Member("verified", JBool(TRUE))})
                  ELSE JObj(base \cup {Member("verified", JBool(FALSE)),
                                       Member("error", JStr(res.err))})]

\* DebuggerInterface::remove_breakpoint
DI_remove_breakpoint(d, file, line) ==
  LET res == line_breakpoint_result(d, line)
      base == {Member("type", JStr("removeBreakpoint")), Member("file", JStr(file)),
               Member("line", JNum(line))}
  IN [d |-> remove_breakpoint_at_line(d, line),
      payload |-> IF res.ok
                  THEN JObj(base \cup {Member("success", JBool(TRUE))})
                  ELSE JObj(base \cup {Member("success", JBool(FALSE)),
                                       Member("error", JStr(res.err))})]

\* DebuggerInterface::clear_breakpoints
DI_clear_breakpoints(d, file) ==
  [d |-> clear_breakpoints(d, file), payload |-> JObj({Member("result", JStr("ok"))})]

\* DebuggerInterface::set_register
DI_set_register(d, index, value) ==
  LET res == set_register(d, index, value)
      base == {Member("type", JStr("setRegister")), Member("index", JNum(index)),
               Member("value", JNum(value))}
  IN [d |-> res.d,
      payload |-> IF res.ok
                  THEN JObj(base \cup {Member("success", JBool(TRUE))})
                  ELSE JObj(base \cup {Member("success", JBool(FALSE)),
                                       Member("error", JStr(range_error(index)))})]

\* DebuggerInterface::quit
DI_quit(d) == [d |-> d, payload |-> JObj({Member("type", JStr("quit"))})]

\* LineMap::get_source_location
get_source_location(m, address) ==
  IF address \in DOMAIN m.source_locations
  THEN [some |-> TRUE, val |-> m.source_locations[address]]
  ELSE [some |-> FALSE, val |-> [file |-> "", line |-> 0, column |-> 0]]

\* The closure `lookup` of get_stack_frames: name, file and line for a PC.
lookup(d, pc) ==
  LET unknown == [name |-> "?", file |-> "?", line |-> 0]
  IN IF ~d.dwarf_line_map.some THEN unknown
     ELSE LET dwarf == d.dwarf_line_map.val
              loc == get_source_location(dwarf, pc)
              line == LineMap_get_line_for_pc(dwarf, pc)
          IN IF loc.some
             THEN [name |-> loc.val.file, file |-> loc.val.file, line |-> loc.val.line]
             ELSE IF line.some
             THEN [name |-> "?", file |-> "?", line |-> line.val]
             ELSE unknown

\* One element of `frames`.
frame_json(d, index, pc) ==
  LET l == lookup(d, pc)
  IN JObj({Member("index", JNum(index)), Member("name", JStr(l.name)),
           Member("file", JStr(l.file)), Member("line", JNum(l.line)),
           Member("instruction", JNum(pc))})

\* DI_get_stack_frames with the frames of the calls in progress left out.
DI_get_stack_frames_current_only(d) ==
  JObj({Member("frames", JArr(<<frame_json(d, 0, get_pc(d))>>))})

\* DebuggerInterface::get_stack_frames: the frames of the calls in progress, in
\* order, then the frame of the current PC.
DI_get_stack_frames(d) ==
  LET call_depth == Len(d.call_frames)
      frames == [i \in 1 .. (call_depth + 1) |->
                   IF i <= call_depth
                   THEN frame_json(d, i - 1, d.call_frames[i])
                   ELSE frame_json(d, call_depth, get_pc(d))]
  IN JObj({Member("frames", JArr(frames))})

\* Debugger::get_registers
get_registers(d) == [i \in 1 .. REG_COUNT |-> d.reg[i - 1]]

\* DebuggerInterface::get_registers
DI_get_registers(d) ==
  LET registers == get_registers(d)
      regs == [i \in 1 .. Len(registers) |->
                 JObj({Member("name", JStr("r" \o ToString(i - 1))),
                       Member("value", JStr("0x" \o Hex(registers[i], 16))),
                       Member("type", JStr("u64"))})]
  IN JObj({Member("registers", JArr(regs))})

\* DebuggerInterface::get_memory
DI_get_memory(d, address, size) ==
  JObj({Member("address", JNum(address)), Member("size", JNum(size)),
        Member("data", JArr(<< >>))})

\* Debugger::get_rodata
get_rodata(d) == d.rodata

\* DebuggerInterface::get_rodata
DI_get_rodata(d) ==
  LET syms == get_rodata(d)
      arr == [i \in 1 .. Len(syms.val) |->
                JObj({Member("name", JStr(syms.val[i].name)),
                      Member("address", JStr("0x" \o Hex(syms.val[i].address, 16))),
                      Member("value", JStr(syms.val[i].content))})]
  IN IF syms.some THEN JObj({Member("rodata", JArr(arr))})
     ELSE JObj({Member("rodata", JArr(<< >>))})

\* ------------------------------------------------------------- adapter
\* One line of standard input as run_adapter_loop sees it: whether line.trim() is
\* empty, the JSON value its text denotes (none when the text is not JSON), and the
\* column at which serde_json reports what is wrong with it.
Line(value, col) == [blank |-> FALSE, value |-> value, col |-> col]
BlankLine == [blank |-> TRUE, value |-> NoneJ, col |-> 0]

\* struct AdapterCommand
AdapterCommand(command, args, request_id) ==
  [command |-> command, args |-> args, request_id |-> request_id]

\* struct AdapterResponse
AdapterResponse(success, data, error, request_id) ==
  [success |-> success, data |-> data, error |-> error, request_id |-> request_id]

\* Deserialize for Option<Value>: an absent field and null are both None.
option_value(opt) == IF opt.some /\ opt.val.t # "null" THEN opt ELSE NoneJ

\* Display of serde::de::Unexpected for a JSON value of the wrong type.  The grave
\* accents of serde's messages are written as apostrophes.
unexpected(v) ==
  CASE v.t = "null" -> "null"
    [] v.t = "bool" -> "boolean '" \o (IF v.b THEN "true" ELSE "false") \o "'"
    [] v.t = "num" -> "integer '" \o ToString(v.n) \o "'"
    [] v.t = "str" -> "string \"" \o v.s \o "\""
    [] v.t = "arr" -> "sequence"
    [] OTHER -> "map"

\* serde_json::from_str::<AdapterCommand>: a text that is not JSON is an error; an
\* object gives a command when it has a string under "command", other keys than the
\* three fields being ignored; an array gives one when it has exactly the three
\* fields in order; any other value is an error.  err is the Display of the error.
from_str(line) ==
  LET v == line.value.val
      Fail(msg) == [ok |-> FALSE, cmd |-> AdapterCommand("", NoneJ, NoneJ),
                    err |-> msg \o " at line 1 column " \o ToString(line.col)]
      Parsed(command, args, request_id) ==
        IF command.t # "str"
        THEN Fail("invalid type: " \o unexpected(command) \o ", expected a string")
        ELSE [ok |-> TRUE,
              cmd |-> AdapterCommand(command.s, option_value(args), option_value(request_id)),
              err |-> ""]
      Length(n) ==
        Fail("invalid length " \o ToString(n) \o ", expected struct AdapterCommand with 3 elements")
  IN IF ~line.value.some THEN Fail("expected value")
     ELSE CASE v.t = "obj" ->
                 IF ~contains_key(v, "command") THEN Fail("missing field 'command'")
                 ELSE Parsed(get_key(v, "command").val, get_key(v, "args"),
                             get_key(v, "requestId"))
            [] v.t = "arr" ->
                 IF Len(v.a) = 0 THEN Length(0)
                 ELSE IF v.a[1].t # "str" \/ Len(v.a) = 3
                 THEN Parsed(v.a[1], get_index(v, 1), get_index(v, 2))
                 ELSE IF Len(v.a) < 3 THEN Length(Len(v.a))
                 ELSE Fail("trailing characters")
            [] OTHER ->
                 Fail("invalid type: " \o unexpected(v) \o ", expected struct AdapterCommand")

\* json!({"type": "error", "message": ...}) of the dispatch
adapter_error(message) ==
  JObj({Member("type", JStr("error")), Member("message", JStr(message))})

\* args.get(i).and_then(Value::as_str).unwrap_or("").to_string()
arg_str(args, i) == unwrap_or(and_then_as_str(get_index(args, i)), "")
\* args.get(i).and_then(Value::as_u64).unwrap_or(0)
arg_u64(args, i) == unwrap_or(and_then_as_u64(get_index(args, i)), 0)

\* dispatch, but a command without args is run as with an empty array of args.
dispatch_default_args(d, cmd) ==
  LET args == IF cmd.args.some THEN cmd.args.val ELSE JArr(<< >>)
      Call(op, r) == [d |-> r.d, payload |-> r.payload, op |-> op]
      Reads(op, payload) == [d |-> d, payload |-> payload, op |-> op]
      NoCall(message) == [d |-> d, payload |-> adapter_error(message), op |-> "none"]
  IN CASE cmd.command = "setBreakpoint" ->
            IF TRUE
            THEN Call("set_breakpoint", DI_set_breakpoint(d, arg_str(args, 0), arg_u64(args, 1)))
            ELSE NoCall("Missing args")
       [] cmd.command = "removeBreakpoint" ->
            IF TRUE
            THEN Call("remove_breakpoint",
                      DI_remove_breakpoint(d, arg_str(args, 0), arg_u64(args, 1)))
            ELSE NoCall("Missing args")
       [] cmd.command = "getStackFrames" -> Reads("get_stack_frames", DI_get_stack_frames(d))
       [] cmd.command = "getRegisters" -> Reads("get_registers", DI_get_registers(d))
       [] cmd.command = "getRodata" -> Reads("get_rodata", DI_get_rodata(d))
       [] cmd.command = "clearBreakpoints" ->
            IF TRUE
            THEN Call("clear_breakpoints", DI_clear_breakpoints(d, arg_str(args, 0)))
            ELSE NoCall("Missing args")
       [] cmd.command = "getMemory" ->
            IF TRUE
            THEN Reads("get_memory", DI_get_memory(d, arg_u64(args, 0), arg_u64(args, 1)))
            ELSE NoCall("Missing args")
       [] cmd.command = "setRegister" ->
            IF TRUE
            THEN Call("set_register", DI_set_register(d, arg_u64(args, 0), arg_u64(args, 1)))
            ELSE NoCall("Missing args")
       [] cmd.command = "quit" -> Call("quit", DI_quit(d))
       [] OTHER -> NoCall("Unknown command")

\* The match on cmd.command, for every command but step and continue: the engine
\* afterwards, the result, and the facade operation that was called ("none" if none).
dispatch(d, cmd) ==
  LET args == cmd.args.val
      Call(op, r) == [d |-> r.d, payload |-> r.payload, op |-> op]
      Reads(op, payload) == [d |-> d, payload |-> payload, op |-> op]
      NoCall(message) == [d |-> d, payload |-> adapter_error(message), op |-> "none"]
  IN CASE cmd.command = "setBreakpoint" ->
            IF cmd.args.some
            THEN Call("set_breakpoint", DI_set_breakpoint(d, arg_str(args, 0), arg_u64(args, 1)))
            ELSE NoCall("Missing args")
       [] cmd.command = "removeBreakpoint" ->
            IF cmd.args.some
            THEN Call("remove_breakpoint",
                      DI_remove_breakpoint(d, arg_str(args, 0), arg_u64(args, 1)))
            ELSE NoCall("Missing args")
       [] cmd.command = "getStackFrames" -> Reads("get_stack_frames", DI_get_stack_frames(d))
       [] cmd.command = "getRegisters" -> Reads("get_registers", DI_get_registers(d))
       [] cmd.command = "getRodata" -> Reads("get_rodata", DI_get_rodata(d))
       [] cmd.command = "clearBreakpoints" ->
            IF cmd.args.some
            THEN Call("clear_breakpoints", DI_clear_breakpoints(d, arg_str(args, 0)))
            ELSE NoCall("Missing args")
       [] cmd.command = "getMemory" ->
            IF cmd.args.some
            THEN Reads("get_memory", DI_get_memory(d, arg_u64(args, 0), arg_u64(args, 1)))
            ELSE NoCall("Missing args")
       [] cmd.command = "setRegister" ->
            IF cmd.args.some
            THEN Call("set_register", DI_set_register(d, arg_u64(args, 0), arg_u64(args, 1)))
            ELSE NoCall("Missing args")
       [] cmd.command = "quit" -> Call("quit", DI_quit(d))
       [] OTHER -> NoCall("Unknown command")

\* envelope with success left at true whatever the result holds.
envelope_always_success(request_id, result) ==
  AdapterResponse(TRUE, Some(result), NoneStr, request_id)

\* The Ok arm after the dispatch: the response for a result.
envelope(request_id, result) ==
  IF result.t = "obj" /\ contains_key(result, "error")
  THEN AdapterResponse(FALSE, Some(result), and_then_as_str(get_key(result, "error")),
                       request_id)
  ELSE IF result.t = "obj" /\ and_then_as_str(get_key(result, "type")) = Some("error")
  THEN AdapterResponse(FALSE, Some(result), and_then_as_str(get_key(result, "message")),
                       request_id)
  ELSE AdapterResponse(TRUE, Some(result), NoneStr, request_id)

\* invalid_response with the error set to the bare detail.
invalid_response_bare(detail) ==
  AdapterResponse(FALSE, NoneJ, Some(detail), NoneJ)

\* The Err arm: the response for a line that is no command.
invalid_response(detail) ==
  AdapterResponse(FALSE, NoneJ, Some("Invalid command: " \o detail), NoneJ)

\* No response line written.
NoResponse == [some |-> FALSE, val |-> AdapterResponse(TRUE, NoneJ, NoneStr, NoneJ)]

\* handle_line, but a blank line is answered like a line that is no command.
handle_line_blank_answered(d, line, o) ==
  LET parsed == from_str(line)
      cmd == parsed.cmd
      Turn(d2, ev, response, op) ==
        [d |-> d2, ev |-> ev, running |-> FALSE, response |-> response, op |-> op,
         request_id |-> cmd.request_id, ends |-> FALSE]
  IN IF line.blank \/ ~parsed.ok
     THEN Turn(d, NoEvent, Some(invalid_response(parsed.err)), "none")
     ELSE CASE cmd.command = "step" ->
                 LET r == run_Step(set_debug_mode(d, "Step"), o)
                 IN Turn(r.d, r.ev,
                         Some(envelope(cmd.request_id, step_payload(run_result(r), r.d))),
                         "step")
            [] cmd.command = "continue" ->
                 LET r == run_Continue(set_debug_mode(d, "Continue"), o)
                 IN IF r.ev = NoEvent
                    THEN [Turn(r.d, r.ev, NoResponse, "continue") EXCEPT !.running = TRUE]
                    ELSE Turn(r.d, r.ev,
                              Some(envelope(cmd.request_id, continue_payload(run_result(r)))),
                              "continue")
            [] OTHER ->
                 LET r == dispatch(d, cmd)
                 IN Turn(r.d, NoEvent, Some(envelope(cmd.request_id, r.payload)), r.op)

\* One turn of the loop of run_adapter_loop for `line`, o being what the interpreter
\* does if it is stepped: the engine afterwards, the event of a run() that returned,
\* whether a run() in Continue mode is still in its loop, the response line written
\* (none for a blank line and while run() has not returned), the facade operation
\* called, the requestId of the command, and whether the turn leaves the loop, which
\* no arm does: none has a break, the one for quit included.
handle_line(d, line, o) ==
  LET parsed == from_str(line)
      cmd == parsed.cmd
      Turn(d2, ev, response, op) ==
        [d |-> d2, ev |-> ev, running |-> FALSE, response |-> response, op |-> op,
         request_id |-> cmd.request_id, ends |-> FALSE]
  IN IF line.blank THEN Turn(d, NoEvent, NoResponse, "none")
     ELSE IF ~parsed.ok THEN Turn(d, NoEvent, Some(invalid_response(parsed.err)), "none")
     ELSE CASE cmd.command = "step" ->
                 LET r == run_Step(set_debug_mode(d, "Step"), o)
                 IN Turn(r.d, r.ev,
                         Some(envelope(cmd.request_id, step_payload(run_result(r), r.d))),
                         "step")
            [] cmd.command = "continue" ->
                 LET r == run_Continue(set_debug_mode(d, "Continue"), o)
                 IN IF r.ev = NoEvent
                    THEN [Turn(r.d, r.ev, NoResponse, "continue") EXCEPT !.running = TRUE]
                    ELSE Turn(r.d, r.ev,
                              Some(envelope(cmd.request_id, continue_payload(run_result(r)))),
                              "continue")
            [] OTHER ->
                 LET r == dispatch(d, cmd)
                 IN Turn(r.d, NoEvent, Some(envelope(cmd.request_id, r.payload)), r.op)

\* ------------------------------------------------------------- actions
\* The register indices and file names a front end passes.
RegIndices == {0, 11, REG_COUNT}
FileNames == {"a.s", "b.s"}

\* No query and no tool has been called.
NoCalc == [fn |-> "none"]

\* The engine driven through its operations, with no front end.
NoFront ==
  [kind |-> "none", alive |-> FALSE, quit |-> FALSE, response |-> NoResponse,
   request_id |-> NoneJ, panicked |-> FALSE]

\* What a returned pass of run() leaves behind.
Returned(r, first) ==
  /\ dbg' = r.d
  /\ event' = r.ev
  /\ running' = (r.ev = NoEvent)
  /\ nexec' = Min((IF first THEN 0 ELSE nexec) + r.n, 2)
  /\ xpc' = IF first THEN (IF r.n > 0 THEN Some(get_pc(dbg)) ELSE None)
            ELSE IF xpc.some \/ r.n = 0 THEN xpc ELSE Some(get_pc(dbg))
  /\ front' = front
  /\ calc' = calc

\* What an operation other than run() leaves behind.
Managed(d) ==
  /\ dbg' = d
  /\ event' = NoEvent
  /\ running' = FALSE
  /\ nexec' = 0
  /\ xpc' = None
  /\ front' = front
  /\ calc' = calc

\* DebuggerInterface::step: set_debug_mode(Step), then run().
step ==
  /\ ~running
  /\ \E o \in StepOutcomes :
       /\ OutcomeAllowed(dbg, o)
       /\ Returned(run_Step(set_debug_mode(dbg, "Step"), o), TRUE)

\* DebuggerInterface::continue: set_debug_mode(Continue), then run() up to the end
\* of the first pass through its loop.
continue ==
  /\ ~running
  /\ \E o \in StepOutcomes :
       /\ OutcomeAllowed(dbg, o)
       /\ Returned(run_Continue(set_debug_mode(dbg, "Continue"), o), TRUE)

\* A further pass through the loop of the run() that continue started.
continue_loop ==
  /\ running
  /\ \E o \in StepOutcomes :
       /\ OutcomeAllowed(dbg, o)
       /\ Returned(run_Continue(dbg, o), FALSE)

set_bp ==
  /\ ~running
  /\ \E pc \in PcVals : Managed(set_breakpoint(dbg, pc))

set_bp_line ==
  /\ ~running
  /\ \E line \in LineVals : Managed(set_breakpoint_at_line(dbg, line))

remove_bp_line ==
  /\ ~running
  /\ \E line \in LineVals : Managed(remove_breakpoint_at_line(dbg, line))

clear_bps ==
  /\ ~running
  /\ \E file \in FileNames : Managed(clear_breakpoints(dbg, file))

set_reg ==
  /\ ~running
  /\ \E idx \in RegIndices, value \in RegVals :
       Managed(set_register(dbg, idx, value).d)

Init ==
  /\ \E entry \in PcIndices, line_map \in LineMapChoices : dbg = Debugger_new(entry, line_map)
  /\ running = FALSE
  /\ event = NoEvent
  /\ nexec = 0
  /\ xpc = None
  /\ front = NoFront
  /\ calc = NoCalc

Next ==
  \/ step
  \/ continue
  \/ continue_loop
  \/ set_bp
  \/ set_bp_line
  \/ remove_bp_line
  \/ clear_bps
  \/ set_reg

Spec == Init /\ [][Next]_vars


\* ------------------------------------------------------------- front ends
\* The text of a request: an object with "command" and, when given, "args" and
\* "requestId".
Request(command, args, request_id) ==
  Line(Some(JObj({Member("command", JStr(command))}
                 \cup {Member("args", args.val) : x \in IF args.some THEN {1} ELSE {}}
                 \cup {Member("requestId", request_id.val) :
                         x \in IF request_id.some THEN {1} ELSE {}})), 1)

\* The source lines and register indices named in what is sent to a front end: the
\* first and the last line, a register a program does not move by, and the first
\* index that is out of range.
FrontLines == {1, MaxLine}
FrontRegs == {0, REG_COUNT}

\* The lines sent to the adapter: a blank one, ones that are no command (not JSON,
\* a number, no "command", a "command" that is no string, too short an array), and
\* requests for every command, with and without args and requestId.
AdapterLines ==
  { BlankLine,
    Line(NoneJ, 1),
    Line(Some(JNum(5)), 1),
    Line(Some(JObj({Member("args", JArr(<< >>)), Member("requestId", JNum(42))})), 26),
    Line(Some(JObj({Member("command", JNum(5))})), 12),
    Line(Some(JArr(<<JStr("step")>>)), 8),
    Line(Some(JArr(<<JStr("quit"), JNull, JStr("q")>>)), 1),
    Request("step", NoneJ, Some(JNum(42))),
    Request("step", NoneJ, Some(JNull)),
    Request("continue", NoneJ, Some(JStr("r"))),
    Request("setBreakpoint", NoneJ, Some(JNum(42))),
    Request("setBreakpoint", Some(JArr(<< >>)), NoneJ),
    Request("removeBreakpoint", Some(JNull), NoneJ),
    Request("clearBreakpoints", Some(JArr(<<JStr("a.s")>>)), NoneJ),
    Request("getStackFrames", NoneJ, NoneJ),
    Request("getRegisters", NoneJ, NoneJ),
    Request("getRodata", NoneJ, NoneJ),
    Request("getMemory", Some(JArr(<<JNum(8), JNum(4)>>)), NoneJ),
    Request("quit", NoneJ, Some(JNum(42))),
    Request("restart", Some(JArr(<< >>)), Some(JNum(42))) }
  \cup { Request("setBreakpoint", Some(JArr(<<JStr("a.s"), JNum(line)>>)), Some(JNum(42))) :
           line \in FrontLines }
  \cup { Request("removeBreakpoint", Some(JArr(<<JStr("a.s"), JNum(line)>>)), NoneJ) :
           line \in FrontLines }
  \cup { Request("setRegister", Some(JArr(<<JNum(idx), JNum(1)>>)), Some(JStr("r"))) :
           idx \in FrontRegs }

\* The program debugged through a front end runs straight on: a step that neither
\* exits nor fails moves to the next instruction and leaves r0 alone.
FrontOutcomes(d) ==
  {o \in StepOutcomes :
     /\ OutcomeAllowed(d, o)
     /\ o.kind = "ok" => o.r11 = d.reg[11] + 1 /\ o.r0 = d.reg[0]}

\* What the interpreter can do during a turn: nothing the turn looks at unless the
\* line makes the engine run.
TurnOutcomes(d, runs) ==
  IF runs THEN FrontOutcomes(d) ELSE {CHOOSE o \in StepOutcomes : o.kind = "exit"}

\* The requests that call run().
RunsEngine(line) ==
  /\ ~line.blank
  /\ from_str(line).ok
  /\ from_str(line).cmd.command \in {"step", "continue"}

\* What a turn of the adapter's loop leaves behind.
AdapterTurn(h, blank) ==
  /\ dbg' = h.d
  /\ event' = h.ev
  /\ running' = h.running
  /\ nexec' = 0
  /\ xpc' = None
  /\ calc' = calc
  /\ front' = IF blank THEN front
              ELSE [front EXCEPT !.response = h.response,
                                 !.request_id = IF h.running THEN h.request_id ELSE NoneJ,
                                 !.quit = @ \/ h.op = "quit",
                                 !.alive = ~h.ends]

\* run_adapter_loop: the next line is read and handled.
adapter_line ==
  /\ front.kind = "adapter"
  /\ front.alive
  /\ ~running
  /\ \E line \in AdapterLines :
       \E o \in TurnOutcomes(dbg, RunsEngine(line)) :
         AdapterTurn(handle_line(dbg, line, o), line.blank)

\* A further pass through the loop of the run() that the continue command started;
\* when it returns, the response to the command is written.
adapter_continue_loop ==
  /\ front.kind = "adapter"
  /\ running
  /\ \E o \in FrontOutcomes(dbg) :
       LET r == run_Continue(dbg, o)
          IN AdapterTurn([d |-> r.d, ev |-> r.ev, running |-> r.ev = NoEvent,
                          response |-> IF r.ev = NoEvent THEN NoResponse
                                       ELSE Some(envelope(front.request_id,
                                                          continue_payload(run_result(r)))),
                          op |-> "continue", request_id |-> front.request_id,
                          ends |-> FALSE], FALSE)

\* run_adapter_loop: standard input has ended or a read has failed.
adapter_eof ==
  /\ front.kind = "adapter"
  /\ front.alive
  /\ ~running
  /\ front' = [front EXCEPT !.alive = FALSE]
  /\ UNCHANGED <<dbg, running, event, nexec, xpc, calc>>

\* The numbers whose decimal or hexadecimal text a REPL line may hold.
ParseRange == 0 .. (REG_COUNT + MaxLine + NPc * INSN_SIZE)

\* str::parse::<usize> and str::parse::<u64>, which accept the same texts on the
\* 64-bit targets the debugger is built for: the number a decimal text denotes.
parse_usize(s) ==
  IF \E n \in ParseRange : ToString(n) = s
  THEN Some(CHOOSE n \in ParseRange : ToString(n) = s)
  ELSE None
parse_u64(s) == parse_usize(s)

\* setreg's value: u64::from_str_radix(stripped, 16) for a text with the prefix
\* "0x", str::parse::<u64> for any other.
parse_value(s) ==
  LET IsHex(n, w) == n < 16 ^ w /\ s = "0x" \o Hex(n, w)
  IN IF \E n \in ParseRange, w \in 1 .. 2 : IsHex(n, w)
     THEN Some(CHOOSE n \in ParseRange : \E w \in 1 .. 2 : IsHex(n, w))
     ELSE parse_u64(s)

\* The lines typed at the REPL, each as the tokens split_whitespace() finds in it
\* (single spaces between them, so that a line is one of the literal commands
\* exactly when its tokens are): the empty line that end of input is read as, every
\* command that changes the engine, some that only print, and some that are none.
ReplLines ==
  { << >>, <<"step">>, <<"s">>, <<"continue">>, <<"c">>, <<"quit">>, <<"quit", "now">>,
    <<"help">>, <<"regs">>, <<"info", "b">>, <<"break">>, <<"break", "main">>,
    <<"delete", "main">>, <<"setreg", "0">>, <<"setreg", "0", "0x1">>,
    <<"setreg", "r0", "1">>, <<"setreg", "0", "one">> }
  \cup { <<verb, ToString(line)>> : verb \in {"break", "delete"}, line \in FrontLines }
  \cup { <<"setreg", ToString(idx), "1">> : idx \in FrontRegs }

\* repl_command, but break tries its argument as a PC before it tries it as a line.
repl_command_pc_first(d, cmd, o) ==
  LET Turn(d2, ev) == [d |-> d2, ev |-> ev, running |-> FALSE, ends |-> FALSE]
      Prefixed(verb) == Len(cmd) >= 2 /\ cmd[1] = verb
  IN CASE cmd \in {<<"step">>, <<"s">>} ->
            LET r == run_Step(set_debug_mode(d, "Step"), o) IN Turn(r.d, r.ev)
       [] cmd \in {<<"continue">>, <<"c">>} ->
            LET r == run_Continue(set_debug_mode(d, "Continue"), o)
            IN [Turn(r.d, r.ev) EXCEPT !.running = (r.ev = NoEvent)]
       [] Prefixed("break") ->
            IF parse_u64(cmd[2]).some
            THEN Turn(set_breakpoint(d, parse_u64(cmd[2]).val), NoEvent)
            ELSE IF parse_usize(cmd[2]).some
            THEN Turn(set_breakpoint_at_line(d, parse_usize(cmd[2]).val), NoEvent)
            ELSE Turn(d, NoEvent)
       [] Prefixed("delete") ->
            IF parse_usize(cmd[2]).some
            THEN Turn(remove_breakpoint_at_line(d, parse_usize(cmd[2]).val), NoEvent)
            ELSE Turn(d, NoEvent)
       [] cmd = <<"quit">> -> [Turn(d, NoEvent) EXCEPT !.ends = TRUE]
       [] Prefixed("setreg") ->
            IF Len(cmd) >= 3 /\ parse_usize(cmd[2]).some /\ parse_value(cmd[3]).some
            THEN Turn(set_register(d, parse_usize(cmd[2]).val, parse_value(cmd[3]).val).d,
                      NoEvent)
            ELSE Turn(d, NoEvent)
       [] OTHER -> Turn(d, NoEvent)

\* One turn of the loop of Repl::start for the trimmed line with tokens cmd, o being
\* what the interpreter does if it is stepped: the engine afterwards, the event of a
\* run() that returned, whether a run() in Continue mode is still in its loop, and
\* whether the turn leaves the loop.  What the REPL prints is not recorded.
repl_command(d, cmd, o) ==
  LET Turn(d2, ev) == [d |-> d2, ev |-> ev, running |-> FALSE, ends |-> FALSE]
      Prefixed(verb) == Len(cmd) >= 2 /\ cmd[1] = verb
  IN CASE cmd \in {<<"step">>, <<"s">>} ->
            LET r == run_Step(set_debug_mode(d, "Step"), o) IN Turn(r.d, r.ev)
       [] cmd \in {<<"continue">>, <<"c">>} ->
            LET r == run_Continue(set_debug_mode(d, "Continue"), o)
            IN [Turn(r.d, r.ev) EXCEPT !.running = (r.ev = NoEvent)]
       [] Prefixed("break") ->
            IF parse_usize(cmd[2]).some
            THEN Turn(set_breakpoint_at_line(d, parse_usize(cmd[2]).val), NoEvent)
            ELSE IF parse_u64(cmd[2]).some
            THEN Turn(set_breakpoint(d, parse_u64(cmd[2]).val), NoEvent)
            ELSE Turn(d, NoEvent)
       [] Prefixed("delete") ->
            IF parse_usize(cmd[2]).some
            THEN Turn(remove_breakpoint_at_line(d, parse_usize(cmd[2]).val), NoEvent)
            ELSE Turn(d, NoEvent)
       [] cmd = <<"quit">> -> [Turn(d, NoEvent) EXCEPT !.ends = TRUE]
       [] Prefixed("setreg") ->
            IF Len(cmd) >= 3 /\ parse_usize(cmd[2]).some /\ parse_value(cmd[3]).some
            THEN Turn(set_register(d, parse_usize(cmd[2]).val, parse_value(cmd[3]).val).d,
                      NoEvent)
            ELSE Turn(d, NoEvent)
       [] OTHER -> Turn(d, NoEvent)

\* What a turn of the REPL's loop leaves behind, quit telling whether the line was
\* the quit command.
ReplTurn(h, quit) ==
  /\ dbg' = h.d
  /\ event' = h.ev
  /\ running' = h.running
  /\ nexec' = 0
  /\ xpc' = None
  /\ calc' = calc
  /\ front' = [front EXCEPT !.quit = @ \/ quit, !.alive = ~h.ends]

\* Repl::start: the next line is read and handled; `"quit" => break` leaves the loop.
repl_line ==
  /\ front.kind = "repl"
  /\ front.alive
  /\ ~running
  /\ \E cmd \in ReplLines :
       \E o \in TurnOutcomes(dbg, cmd \in {<<"step">>, <<"s">>, <<"continue">>, <<"c">>}) :
         ReplTurn(repl_command(dbg, cmd, o), cmd = <<"quit">>)

\* A further pass through the loop of the run() that continue started.
repl_continue_loop ==
  /\ front.kind = "repl"
  /\ running
  /\ \E o \in FrontOutcomes(dbg) :
       LET r == run_Continue(dbg, o)
          IN ReplTurn([d |-> r.d, ev |-> r.ev, running |-> r.ev = NoEvent, ends |-> FALSE],
                      FALSE)

\* Repl::start: read_line has failed.
repl_read_error ==
  /\ front.kind = "repl"
  /\ front.alive
  /\ ~running
  /\ front' = [front EXCEPT !.alive = FALSE]
  /\ UNCHANGED <<dbg, running, event, nexec, xpc, calc>>

\* main: the engine is made for a program entered at its first instruction and
\* handed to the adapter's loop or to the REPL.
FrontInit ==
  /\ \E line_map \in {None, Some(from_elf_data(RowsPlain))} :
       dbg = Debugger_new(0, line_map)
  /\ running = FALSE
  /\ event = NoEvent
  /\ nexec = 0
  /\ xpc = None
  /\ \E kind \in {"adapter", "repl"} :
       front = [kind |-> kind, alive |-> TRUE, quit |-> FALSE, response |-> NoResponse,
                request_id |-> NoneJ, panicked |-> FALSE]
  /\ calc = NoCalc

FrontNext ==
  \/ adapter_line
  \/ adapter_continue_loop
  \/ adapter_eof
  \/ repl_line
  \/ repl_continue_loop
  \/ repl_read_error

FrontSpec == FrontInit /\ [][FrontNext]_vars

\* ------------------------------------------------------------- claims
\* A transition that is a pass of run(): the only ones that return an event or
\* leave the Continue loop running.
RunPass == event' # NoEvent \/ running'
\* The pass is the whole of a run() in Step mode.
StepCall == ~running /\ RunPass /\ dbg'.debug_mode = "Step"
\* The pass is the first of a run() in Continue mode.
ContinueCall == ~running /\ RunPass /\ dbg'.debug_mode = "Continue"
\* The pass found the engine not at a breakpoint, on a breakpointed PC.
PreStepHit ==
  /\ ~dbg.at_breakpoint
  /\ get_pc(dbg) \in dbg.breakpoints
  /\ dbg.last_breakpoint_pc # Some(get_pc(dbg))
\* interpreter.step() calls of the run() so far, before this pass.
ExecBefore == IF running THEN nexec ELSE 0
\* This pass left the interpreter and the meter as they were.
Untouched ==
  /\ dbg'.reg = dbg.reg
  /\ dbg'.compute_meter = dbg.compute_meter
  /\ dbg'.due_insn_count = dbg.due_insn_count
  /\ dbg'.program_result = dbg.program_result

\* C1: a pass of run(), in Step or Continue mode, that reaches the pre-step check on
\* a PC that is in breakpoints and is not last_breakpoint_pc returns
\* Breakpoint(pc, line_for_pc(pc)), sets at_breakpoint and last_breakpoint_pc = Some(pc),
\* and executes nothing: registers (the PC among them) and the meter are unchanged.
C1_DetectionPrecedesExecution ==
  [][ (RunPass /\ PreStepHit) =>
        /\ event' = Breakpoint(get_pc(dbg), get_line_for_pc(dbg, get_pc(dbg)))
        /\ dbg'.at_breakpoint
        /\ dbg'.last_breakpoint_pc = Some(get_pc(dbg))
        /\ Untouched
        /\ nexec' = ExecBefore
        /\ ~running' ]_vars

\* C1 happens: a Continue run that executed instructions and then stopped before one.
C1_Witness ==
  /\ dbg.debug_mode = "Continue"
  /\ event.type = "Breakpoint"
  /\ nexec = 2
  /\ dbg.at_breakpoint
  /\ event.pc = get_pc(dbg)

\* C2: a run() in Step mode entered with at_breakpoint = FALSE returns Breakpoint and
\* executes nothing when the pre-step check fires; otherwise it executes exactly one
\* instruction, the one at the old PC, and returns Step(old_pc, line_for_pc(old_pc)),
\* or Exit(code) / Error when that step ended the program.
C2_StepSemantics ==
  [][ (StepCall /\ ~dbg.at_breakpoint) =>
        IF PreStepHit
        THEN nexec' = 0 /\ event'.type = "Breakpoint" /\ xpc' = None
        ELSE /\ nexec' = 1
             /\ xpc' = Some(get_pc(dbg))
             /\ \/ event' = StepEvent(get_pc(dbg), get_line_for_pc(dbg, get_pc(dbg)))
                \/ event' = Exit(dbg'.program_result.val) /\ dbg'.program_result.ok
                \/ event' = Error(get_pc(dbg)) /\ ~dbg'.program_result.ok
             /\ event'.type \in {"Exit", "Error"} => dbg'.reg = dbg.reg ]_vars

\* C2 happens: a Step run executed the instruction at the PC its Step event names
\* and moved on.
C2_Witness ==
  /\ dbg.debug_mode = "Step"
  /\ event.type = "Step"
  /\ nexec = 1
  /\ xpc = Some(event.pc)
  /\ get_pc(dbg) # event.pc

\* C3: every pass of a run() in Continue mode either stops before a breakpointed PC
\* with Breakpoint(pc, line) and that instruction unexecuted, or executes one
\* instruction and then returns Exit(code) on Ok(code), Error on Err, and goes round
\* again otherwise; no pass returns a Step event.
C3_ContinueSemantics ==
  [][ (RunPass /\ dbg'.debug_mode = "Continue") =>
        /\ event'.type # "Step"
        /\ running' = (event' = NoEvent)
        /\ IF PreStepHit
           THEN /\ event' = Breakpoint(get_pc(dbg), get_line_for_pc(dbg, get_pc(dbg)))
                /\ nexec' = ExecBefore
                /\ Untouched
           ELSE /\ nexec' = Min(ExecBefore + 1, 2)
                /\ \/ event' = NoEvent
                   \/ event' = Exit(dbg'.program_result.val) /\ dbg'.program_result.ok
                   \/ event' = Error(get_pc(dbg)) /\ ~dbg'.program_result.ok ]_vars

\* C3 happens: a Continue run went through several instructions and returned Exit.
C3_Witness ==
  /\ dbg.debug_mode = "Continue"
  /\ event.type = "Exit"
  /\ nexec = 2
  /\ ~running


C5_ResumeReexamines ==
  [][ (~running /\ RunPass /\ dbg.at_breakpoint /\ event'.type \notin {"Exit", "Error"}) =>
        LET new_pc == get_pc(dbg')
        IN /\ nexec' = 1
           /\ xpc' = Some(get_pc(dbg))
           /\ IF dbg'.debug_mode = "Continue"
              THEN /\ event' = NoEvent /\ running'
                   /\ ~dbg'.at_breakpoint /\ dbg'.last_breakpoint_pc = None
              ELSE IF new_pc \in dbg.breakpoints
              THEN /\ event' = Breakpoint(new_pc, get_line_for_pc(dbg, new_pc))
                   /\ dbg'.at_breakpoint /\ dbg'.last_breakpoint_pc = Some(new_pc)
                   /\ ~running'
              ELSE /\ event' = StepEvent(new_pc, get_line_for_pc(dbg, new_pc))
                   /\ ~dbg'.at_breakpoint /\ dbg'.last_breakpoint_pc = None
                   /\ ~running' ]_vars

\* C5 happens: a Step run executed the pending instruction of one breakpoint and
\* stopped at the breakpoint on the PC it arrived at.
C5_Witness ==
  /\ dbg.debug_mode = "Step"
  /\ event.type = "Breakpoint"
  /\ nexec = 1
  /\ xpc # Some(event.pc)
  /\ dbg.at_breakpoint

\* The lines of scenario S4 for the current PC P: line breakpoints L with
\* pcs_for_line(L) = {P}.
S4Lines == {L \in dbg.line_breakpoints : get_pcs_for_line(dbg, L) = <<get_pc(dbg)>>}
\* What the meter takes for one more instruction: the accumulated count, as far as
\* the remaining budget goes.
StepCost == Min(dbg.due_insn_count + 1, dbg.compute_meter)

C7_Debounce ==
  [][ (~running /\ RunPass /\ event.type = "Breakpoint") =>
        /\ nexec' = 1
        /\ xpc' = Some(event.pc)
        /\ get_pc(dbg) = event.pc
        /\ dbg'.debug_mode = "Continue" => event'.type \in {"None", "Exit", "Error"} ]_vars

\* C7 happens: Breakpoint(P) came again from the very next run, after the instruction
\* at P had executed and jumped to itself.
C7_Witness ==
  /\ event.type = "Breakpoint"
  /\ nexec = 1
  /\ xpc = Some(event.pc)
  /\ dbg.at_breakpoint

\* C8 as stated: in every reachable state, at_breakpoint implies
\* last_breakpoint_pc = Some(current_pc).
C8_AtBreakpointIsAtLastPc ==
  dbg.at_breakpoint => dbg.last_breakpoint_pc = Some(get_pc(dbg))

\* C9: a pass of run() that sees a successful step or an Exit takes the accumulated
\* due_insn_count from the meter (down to zero at most) and resets it to zero; a pass
\* that returns a pre-step Breakpoint or an Error leaves the meter as it was.
C9_ComputeAccounting ==
  [][ RunPass =>
        IF ~dbg.at_breakpoint /\ PreStepHit
        THEN /\ event'.type = "Breakpoint"
             /\ dbg'.compute_meter = dbg.compute_meter
             /\ dbg'.due_insn_count = dbg.due_insn_count
        ELSE IF event'.type = "Error"
        THEN /\ dbg'.compute_meter = dbg.compute_meter
             /\ dbg'.due_insn_count = dbg.due_insn_count + 1
        ELSE /\ dbg'.compute_meter =
                  (IF dbg.compute_meter >= dbg.due_insn_count + 1
                   THEN dbg.compute_meter - (dbg.due_insn_count + 1) ELSE 0)
             /\ dbg'.due_insn_count = 0 ]_vars

\* C9 happens: after a metered step, a failing step has left its count pending and
\* the meter where it was.
C9_Witness ==
  /\ event.type = "Error"
  /\ dbg.due_insn_count = 1
  /\ dbg.compute_meter = Budget - 1

\* C10: get_compute_units always reports used + remaining = total = the initial
\* budget with remaining <= total, and no operation lowers `used` or raises `remaining`.
C10_Conservation ==
  /\ [](LET cu == get_compute_units(dbg)
        IN /\ cu.used + cu.remaining = cu.total
           /\ cu.total = Budget
           /\ cu.remaining <= cu.total)
  /\ [][ /\ get_compute_units(dbg').used >= get_compute_units(dbg).used
         /\ get_compute_units(dbg').remaining <= get_compute_units(dbg).remaining ]_vars

\* C10 happens: a Step event was returned with the whole budget used up.
C10_Witness ==
  /\ event.type = "Step"
  /\ get_compute_units(dbg).used = Budget
  /\ get_compute_units(dbg).remaining = 0

\* ------------------------------------------------------------- breakpoint sets
\* The PCs of a line, as a set.
PcsOf(d, line) == SeqRange(get_pcs_for_line(d, line))

\* C12: set_bp_line(L) adds every PC of pcs_for_line(L) to breakpoints and adds L to
\* line_breakpoints; when L has no PCs, or no LineMap is loaded, it changes nothing;
\* either way it reports success and touches no other field.
C12_SetLineBreakpoint ==
  \A L \in LineVals :
    LET d1 == set_breakpoint_at_line(dbg, L)
        pcs == PcsOf(dbg, L)
    IN /\ line_breakpoint_result(dbg, L).ok
       /\ pcs # {} =>
            /\ d1.breakpoints = dbg.breakpoints \cup pcs
            /\ d1.line_breakpoints = dbg.line_breakpoints \cup {L}
            /\ d1 = [dbg EXCEPT !.breakpoints = d1.breakpoints,
                                !.line_breakpoints = d1.line_breakpoints]
       /\ pcs = {} => d1 = dbg

\* A line with PCs has been set (its PCs are breakpoints and it is recorded), while a
\* line without PCs would change nothing.
C12_Witness ==
  /\ event = NoEvent
  /\ \E L \in dbg.line_breakpoints : PcsOf(dbg, L) # {} /\ PcsOf(dbg, L) \subseteq dbg.breakpoints
  /\ \E L \in LineVals : PcsOf(dbg, L) = {} /\ set_breakpoint_at_line(dbg, L) = dbg

\* C13: from any reachable state, setting line L twice leaves the breakpoint sets as
\* setting it once does, and one remove_bp_line(L) afterwards gives back the sets as
\* they were before L was set.
C13_SetTwiceRemoveOnce ==
  \A L \in LineVals :
    LET once == set_breakpoint_at_line(dbg, L)
        twice == set_breakpoint_at_line(once, L)
        back == remove_breakpoint_at_line(twice, L)
    IN /\ twice.breakpoints = once.breakpoints
       /\ twice.line_breakpoints = once.line_breakpoints
       /\ back.breakpoints = dbg.breakpoints
       /\ back.line_breakpoints = dbg.line_breakpoints

\* C14: every line in line_breakpoints has PCs and all of them are in breakpoints, and
\* set_breakpoint(pc) leaves line_breakpoints alone.
C14_LineBreakpointsInstalled ==
  /\ \A L \in dbg.line_breakpoints :
       PcsOf(dbg, L) # {} /\ PcsOf(dbg, L) \subseteq dbg.breakpoints
  /\ \A pc \in PcVals : set_breakpoint(dbg, pc).line_breakpoints = dbg.line_breakpoints

\* C15: clear_breakpoints with a LineMap empties line_breakpoints and takes the PCs of
\* the recorded lines, and no others, out of breakpoints; without a LineMap it empties
\* both sets; the file argument makes no difference, and no other field changes.
C15_ClearBreakpoints ==
  \A file \in FileNames :
    LET d1 == clear_breakpoints(dbg, file)
        linePcs == UNION {PcsOf(dbg, L) : L \in dbg.line_breakpoints}
    IN /\ d1.line_breakpoints = {}
       /\ dbg.dwarf_line_map.some => d1.breakpoints = dbg.breakpoints \ linePcs
       /\ ~dbg.dwarf_line_map.some => d1.breakpoints = {}
       /\ d1 = [dbg EXCEPT !.breakpoints = d1.breakpoints, !.line_breakpoints = {}]
       /\ \A other \in FileNames : clear_breakpoints(dbg, other) = d1

\* With a LineMap, clearing takes a recorded line's PCs out and a PC-only breakpoint
\* stays behind.
C15_Witness ==
  /\ dbg.dwarf_line_map.some
  /\ dbg.line_breakpoints # {}
  /\ LET d1 == clear_breakpoints(dbg, "a.s")
     IN d1.breakpoints # {} /\ d1.breakpoints # dbg.breakpoints

\* C16: set_register(idx, v) with idx in 0 .. 11 succeeds and sets that register, and
\* nothing else, to v; with any other idx it fails and changes nothing; get_register
\* gives the register's value inside the file and no value outside it.
C16_RegisterRange ==
  \A idx \in 0 .. (REG_COUNT + 1), v \in RegVals :
    LET r == set_register(dbg, idx, v)
    IN /\ idx < REG_COUNT =>
            /\ r.ok
            /\ r.d.reg[idx] = v
            /\ \A j \in 0 .. (REG_COUNT - 1) : j # idx => r.d.reg[j] = dbg.reg[j]
            /\ r.d = [dbg EXCEPT !.reg = r.d.reg]
            /\ get_register(dbg, idx) = Some(dbg.reg[idx])
       /\ idx >= REG_COUNT =>
            /\ ~r.ok
            /\ r.d = dbg
            /\ get_register(dbg, idx) = None
       /\ DOMAIN r.d.reg = 0 .. (REG_COUNT - 1)

\* A register has been written (r0 holds 1 with no instruction run since), and an
\* out-of-range write is refused there.
C16_Witness ==
  /\ event = NoEvent
  /\ dbg.reg[0] = 1
  /\ ~set_register(dbg, REG_COUNT, 1).ok
  /\ set_register(dbg, 11, 1).d.reg[11] = 1

\* ------------------------------------------------------------- faults
\* C11: run() never returns Err: every pass that returns hands back Ok with one of the
\* four events; a step that ends with program result Err always makes the pass return
\* DebugEvent::Error, with the program result left at Err, and the facade's step and
\* continue turn that event into a payload of type "error"; no other pass returns Error.
C11_FaultsInBand ==
  \A o \in StepOutcomes :
    OutcomeAllowed(dbg, o) =>
      LET rs == run_Step(set_debug_mode(dbg, "Step"), o)
          rc == run_Continue(IF running THEN dbg ELSE set_debug_mode(dbg, "Continue"), o)
          Faulted(r) == r.n = 1 /\ o.kind = "err"
          ErrorPayload ==
            JObj({Member("type", JStr("error")),
                  Member("message", JStr(error_msg(get_pc(dbg))))})
          InBand(r, payload) ==
            /\ run_result(r).ok
            /\ r.ev.type \in {"None", "Step", "Breakpoint", "Exit", "Error"}
            /\ Faulted(r) =>
                 /\ r.ev = Error(get_pc(dbg))
                 /\ ~r.d.program_result.ok
                 /\ payload = ErrorPayload
            /\ r.ev.type = "Error" => Faulted(r)
            /\ r.ev.type \in {"Step", "Breakpoint", "Exit"} =>
                 and_then_as_str(get_key(payload, "type")) # Some("error")
      IN /\ ~running => InBand(rs, step_payload(run_result(rs), rs.d)) /\ rs.ev # NoEvent
         /\ InBand(rc, continue_payload(run_result(rc)))

\* A run() has returned Error after a step that left the program result at Err.
C11_Witness ==
  /\ ~running
  /\ event.type = "Error"
  /\ nexec > 0
  /\ ~dbg.program_result.ok

\* ------------------------------------------------------------- adapter responses
\* The requestId a request line carries: the member of the object, or the third
\* element of the array; null and absent are alike.
RequestIdOf(line) ==
  LET v == line.value.val
      id == IF v.t = "obj" THEN get_key(v, "requestId") ELSE get_index(v, 2)
  IN IF id.some /\ id.val # JNull THEN id ELSE NoneJ

\* The payload is an object with an "error" key or with "type": "error".
MarksError(payload) ==
  /\ payload.t = "obj"
  /\ \/ \E m \in payload.o : m.k = "error"
     \/ Member("type", JStr("error")) \in payload.o

\* The string the payload has under key, if it has one.
StringUnder(payload, key) ==
  IF \E m \in payload.o : m.k = key /\ m.v.t = "str"
  THEN Some((CHOOSE m \in payload.o : m.k = key /\ m.v.t = "str").v.s)
  ELSE NoneStr

\* The lines the adapter is sent that parse as a command.
CommandLines == {line \in AdapterLines : ~line.blank /\ from_str(line).ok}

\* The payload the facade or the dispatch gives for a command line.
PayloadOf(d, line, o) ==
  LET cmd == from_str(line).cmd
      rs == run_Step(set_debug_mode(d, "Step"), o)
      rc == run_Continue(set_debug_mode(d, "Continue"), o)
  IN CASE cmd.command = "step" -> step_payload(run_result(rs), rs.d)
       [] cmd.command = "continue" -> continue_payload(run_result(rc))
       [] OTHER -> dispatch(d, cmd).payload

\* The envelope law for one response and the payload it was made for.
EnvelopeLaw(response, payload) ==
  /\ response.data = Some(payload)
  /\ response.success = ~MarksError(payload)
  /\ ~response.success =>
       response.error = IF \E m \in payload.o : m.k = "error"
                        THEN StringUnder(payload, "error")
                        ELSE StringUnder(payload, "message")
  /\ response.success => response.error = NoneStr

\* C17: for every line that parses as a command, in every state the adapter reads a
\* line in, the response written echoes the line's requestId and has the payload in
\* data; success is false exactly when the payload has an "error" key or "type":
\* "error", and then error is the string under "error", else under "message";
\* otherwise success is true and error is null.  The response a continue gets when
\* its run() returns on a later pass obeys the same law.
C17_AdapterEnvelope ==
  /\ (front.kind = "adapter" /\ front.alive /\ ~running) =>
       \A line \in CommandLines :
         \A o \in TurnOutcomes(dbg, RunsEngine(line)) :
           LET h == handle_line(dbg, line, o)
           IN h.response.some =>
                /\ h.response.val.request_id = RequestIdOf(line)
                /\ EnvelopeLaw(h.response.val, PayloadOf(dbg, line, o))
  /\ (front.kind = "adapter" /\ front.response.some /\ front.response.val.data.some) =>
       EnvelopeLaw(front.response.val, front.response.val.data.val)

\* The adapter has answered a setRegister for an index out of range: the payload
\* has an "error" key, and the response has its string and the request's id.
C17_Witness ==
  /\ front.kind = "adapter"
  /\ front.response.some
  /\ front.response.val.data.some
  /\ \E m \in front.response.val.data.val.o : m.k = "error"
  /\ ~front.response.val.success
  /\ front.response.val.error = Some(range_error(REG_COUNT))
  /\ front.response.val.request_id = Some(JStr("r"))

\* The lines the adapter is sent that are not blank and do not parse as a command.
InvalidLines == {line \in AdapterLines : ~line.blank /\ ~from_str(line).ok}

\* The commands run_adapter_loop has an arm for.
KnownCommands ==
  {"step", "continue", "setBreakpoint", "removeBreakpoint", "getStackFrames", "getRegisters",
   "getRodata", "clearBreakpoints", "getMemory", "setRegister", "quit"}

\* C18: in every state the adapter reads a line in, a non-blank line that does not
\* parse as a command is answered with success false, error "Invalid command: " and
\* the parser's message, data null and requestId null, and a parsed request whose
\* command is none of the adapter's with success false and data {type: "error",
\* message: "Unknown command"}; for both no facade operation is called, the engine
\* is left as it was and the loop is not left.
C18_InvalidRequests ==
  (front.kind = "adapter" /\ front.alive /\ ~running) =>
    \A line \in AdapterLines :
      \A o \in TurnOutcomes(dbg, RunsEngine(line)) :
        LET h == handle_line(dbg, line, o)
            Rejected == /\ h.op = "none"
                        /\ h.d = dbg
                        /\ ~h.running
                        /\ ~h.ends
                        /\ h.response.some
                        /\ ~h.response.val.success
        IN /\ line \in InvalidLines =>
                /\ Rejected
                /\ h.response.val.error = Some("Invalid command: " \o from_str(line).err)
                /\ from_str(line).err # ""
                /\ h.response.val.data = NoneJ
                /\ h.response.val.request_id = NoneJ
           /\ (line \in CommandLines /\ from_str(line).cmd.command \notin KnownCommands) =>
                /\ Rejected
                /\ h.response.val.data =
                     Some(JObj({Member("type", JStr("error")),
                                Member("message", JStr("Unknown command"))}))

\* The adapter has answered a line that is no command after the engine had run and
\* a breakpoint was installed, and its loop is still going.
C18_Witness ==
  /\ front.kind = "adapter"
  /\ front.alive
  /\ front.response.some
  /\ ~front.response.val.success
  /\ front.response.val.data = NoneJ
  /\ front.response.val.error = Some("Invalid command: expected value at line 1 column 1")
  /\ front.response.val.request_id = NoneJ
  /\ dbg.breakpoints # {}
  /\ get_pc(dbg) > 0

\* The requestIds tried with a request.
RequestIds == {NoneJ, Some(JNum(42)), Some(JStr("r"))}

\* C19: in every state the adapter reads a line in, a setBreakpoint request with
\* args [file, line] and requestId r is answered with success true, error null,
\* requestId r and data {type: "setBreakpoint", file, line, verified: true}, and
\* afterwards every PC of pcs_for_line(line) is a breakpoint, nothing else having
\* been added to the breakpoints.
C19_AdapterSetBreakpoint ==
  (front.kind = "adapter" /\ front.alive /\ ~running) =>
    \A file \in FileNames, line \in LineVals, r \in RequestIds :
      LET request == Request("setBreakpoint", Some(JArr(<<JStr(file), JNum(line)>>)), r)
          h == handle_line(dbg, request, CHOOSE o \in StepOutcomes : TRUE)
      IN /\ h.response =
              Some(AdapterResponse(TRUE,
                                   Some(JObj({Member("type", JStr("setBreakpoint")),
                                              Member("file", JStr(file)),
                                              Member("line", JNum(line)),
                                              Member("verified", JBool(TRUE))})),
                                   NoneStr, r))
         /\ h.op = "set_breakpoint"
         /\ h.d.breakpoints = dbg.breakpoints \cup PcsOf(dbg, line)
         /\ h.d.line_breakpoints =
              dbg.line_breakpoints \cup (IF PcsOf(dbg, line) = {} THEN {} ELSE {line})

\* The adapter has answered a setBreakpoint for a line that has PCs, and they are
\* breakpoints now.
C19_Witness ==
  /\ front.kind = "adapter"
  /\ front.response.some
  /\ front.response.val.success
  /\ front.response.val.request_id = Some(JNum(42))
  /\ \E line \in LineVals :
       /\ front.response.val.data =
            Some(JObj({Member("type", JStr("setBreakpoint")), Member("file", JStr("a.s")),
                       Member("line", JNum(line)), Member("verified", JBool(TRUE))}))
       /\ PcsOf(dbg, line) # {}
       /\ PcsOf(dbg, line) \subseteq dbg.breakpoints
       /\ line \in dbg.line_breakpoints

\* ------------------------------------------------------------- quit
\* C20: once a front end has received quit its loop has ended, so that no later
\* line is dispatched to the engine.
C20_QuitEndsLoop == front.quit => ~front.alive

\* ------------------------------------------------------------- stack frames
\* The deepest nesting of calls looked at.
MaxDepth == 2

\* What the interpreter may have recorded as the target_pc of a call frame.
FrameTargets == PcVals \cup PcIndices

\* The interpreter's call instruction: a frame is pushed and r11 moves to the callee.
interp_call ==
  /\ Len(dbg.call_frames) < MaxDepth
  /\ \E target_pc \in FrameTargets, callee \in PcIndices :
       dbg' = [dbg EXCEPT !.call_frames = Append(@, target_pc), !.reg[11] = callee]
  /\ calc' = NoCalc
  /\ UNCHANGED <<running, event, nexec, xpc, front>>

\* The interpreter's exit instruction inside a call: the frame is popped.
interp_return ==
  /\ Len(dbg.call_frames) > 0
  /\ \E r11 \in PcIndices :
       dbg' = [dbg EXCEPT !.call_frames = SubSeq(@, 1, Len(@) - 1), !.reg[11] = r11]
  /\ calc' = NoCalc
  /\ UNCHANGED <<running, event, nexec, xpc, front>>

\* DebuggerInterface::get_stack_frames, which takes &self.
get_stack_frames ==
  /\ calc = NoCalc
  /\ calc' = [fn |-> "get_stack_frames", before |-> dbg, out |-> DI_get_stack_frames(dbg)]
  /\ UNCHANGED <<dbg, running, event, nexec, xpc, front>>

FrameInit ==
  /\ \E entry \in PcIndices, line_map \in LineMapChoices : dbg = Debugger_new(entry, line_map)
  /\ running = FALSE
  /\ event = NoEvent
  /\ nexec = 0
  /\ xpc = None
  /\ front = NoFront
  /\ calc = NoCalc

FrameNext ==
  \/ interp_call
  \/ interp_return
  \/ get_stack_frames

FrameSpec == FrameInit /\ [][FrameNext]_vars

\* The value an object has under a key.
ValueUnder(obj, key) == (CHOOSE m \in obj.o : m.k = key).v

\* What C21 says of the frame numbered index for the PC pc: file and line are those of
\* source_location(pc) when there is one, and else name and file are "?" and line
\* is line_for_pc(pc), or 0 when there is none.
FrameLaw(d, frame, index, pc) ==
  LET located == d.dwarf_line_map.some /\ pc \in DOMAIN d.dwarf_line_map.val.source_locations
      loc == d.dwarf_line_map.val.source_locations[pc]
      line == get_line_for_pc(d, pc)
  IN /\ frame.t = "obj"
     /\ {m.k : m \in frame.o} = {"index", "name", "file", "line", "instruction"}
     /\ Cardinality(frame.o) = 5
     /\ ValueUnder(frame, "index") = JNum(index)
     /\ ValueUnder(frame, "instruction") = JNum(pc)
     /\ located => /\ ValueUnder(frame, "file") = JStr(loc.file)
                   /\ ValueUnder(frame, "line") = JNum(loc.line)
     /\ ~located => /\ ValueUnder(frame, "name") = JStr("?")
                    /\ ValueUnder(frame, "file") = JStr("?")
                    /\ ValueUnder(frame, "line") = JNum(IF line.some THEN line.val ELSE 0)

\* C21: get_stack_frames returns {frames: [...]} with call_depth + 1 frames numbered
\* 0..call_depth: one for each call frame in order with that frame's target_pc as
\* instruction, then one for the current PC, each with file and line as FrameLaw
\* says; and the engine is as it was before the call.
C21_StackFrames ==
  calc.fn = "get_stack_frames" =>
    LET call_depth == Len(dbg.call_frames)
        frames == ValueUnder(calc.out, "frames")
    IN /\ dbg = calc.before
       /\ calc.out.t = "obj"
       /\ {m.k : m \in calc.out.o} = {"frames"}
       /\ frames.t = "arr"
       /\ Len(frames.a) = call_depth + 1
       /\ \A i \in 1 .. call_depth :
            FrameLaw(dbg, frames.a[i], i - 1, dbg.call_frames[i])
       /\ FrameLaw(dbg, frames.a[call_depth + 1], call_depth, get_pc(dbg))

\* The frames were asked for inside two nested calls, one call frame having a source
\* location and the other none.
C21_Witness ==
  /\ calc.fn = "get_stack_frames"
  /\ Len(dbg.call_frames) = 2
  /\ dbg.dwarf_line_map.some
  /\ dbg.call_frames[1] \in DOMAIN dbg.dwarf_line_map.val.source_locations
  /\ dbg.call_frames[2] \notin DOMAIN dbg.dwarf_line_map.val.source_locations
  /\ Len(ValueUnder(calc.out, "frames").a) = 3

\* ------------------------------------------------------------- input serializer
\* const BPF_ALIGN_OF_U128, MAX_PERMITTED_DATA_INCREASE, NON_DUP_MARKER
BPF_ALIGN_OF_U128 == 16
MAX_PERMITTED_DATA_INCREASE == 10240
NON_DUP_MARKER == 255
\* The number of bytes of a Pubkey.
PUBKEY_BYTES == 32

\* Vec<u8> as the serializer's buffer: its length, and its bytes in order as runs, each
\* stretch of equal bytes written as one run [b, n] of the byte and how many times it
\* stands there, n > 0, neighbouring runs having different bytes.
add_run(runs, b, n) ==
  IF runs # << >> /\ runs[Len(runs)].b = b
  THEN [runs EXCEPT ![Len(runs)].n = @ + n]
  ELSE Append(runs, [b |-> b, n |-> n])

\* Vec::extend with n times the byte b
extend(buffer, b, n) ==
  IF n = 0 THEN buffer
  ELSE [runs |-> add_run(buffer.runs, b, n), len |-> buffer.len + n]

\* Vec::len
buffer_len(buffer) == buffer.len

\* Serializer::new
Serializer_new == [runs |-> << >>, len |-> 0]

\* A slice of bytes as runs: a run starts at the first byte and wherever a byte is not
\* the one before it.
runs_of(data) ==
  LET starts == {i \in 1 .. Len(data) : i = 1 \/ data[i] # data[i - 1]}
      count == Cardinality(starts)
      start(k) == IF k > count THEN Len(data) + 1
                  ELSE CHOOSE s \in starts : Cardinality({t \in starts : t < s}) = k - 1
  IN [k \in 1 .. count |-> [b |-> data[start(k)], n |-> start(k + 1) - start(k)]]

\* Serializer::write_all, data being a slice of bytes: Vec::extend_from_slice
write_all(buffer, data) ==
  LET runs == runs_of(data)
  IN IF runs = << >> THEN buffer
     ELSE [runs |-> add_run(buffer.runs, runs[1].b, runs[1].n) \o Tail(runs),
           len |-> buffer.len + Len(data)]

\* The n low bytes of v, lowest first: the memory of a to_le() value.
RECURSIVE to_le_bytes(_, _)
to_le_bytes(v, n) ==
  IF n = 0 THEN << >> ELSE <<v % 256>> \o to_le_bytes(v \div 256, n - 1)

\* Serializer::write::<u64> of v.to_le()
write_u64(buffer, v) == write_all(buffer, to_le_bytes(v, 8))

\* `b as u8` for a bool
bool_as_u8(b) == IF b THEN 1 ELSE 0

\* The padding write_account_data puts after the realloc pad.
alignment_needed(current_len) ==
  (BPF_ALIGN_OF_U128 - (current_len % BPF_ALIGN_OF_U128)) % BPF_ALIGN_OF_U128

\* write_account_data with the padding reckoned from the length of the data alone.
write_account_data_by_field(buffer, data) ==
  LET padded == extend(write_all(buffer, data), 0, MAX_PERMITTED_DATA_INCREASE)
  IN extend(padded, 0, alignment_needed(Len(data) + MAX_PERMITTED_DATA_INCREASE))

\* write_account_data without the room for a realloc.
write_account_data_no_realloc(buffer, data) ==
  LET written == write_all(buffer, data)
  IN extend(written, 0, alignment_needed(buffer_len(written)))

\* Serializer::write_account_data
write_account_data(buffer, data) ==
  LET padded == extend(write_all(buffer, data), 0, MAX_PERMITTED_DATA_INCREASE)
  IN extend(padded, 0, alignment_needed(buffer_len(padded)))

\* struct Account, enum SerializeAccount
Account_new(key, owner, lamports, data, is_signer, is_writable, executable, rent_epoch) ==
  [key |-> key, owner |-> owner, lamports |-> lamports, data |-> data,
   is_signer |-> is_signer, is_writable |-> is_writable, executable |-> executable,
   rent_epoch |-> rent_epoch]
NoAccount == Account_new(<< >>, << >>, 0, << >>, FALSE, FALSE, FALSE, 0)
SerializeAccount_Account(index, account) ==
  [tag |-> "Account", index |-> index, account |-> account, position |-> 0]
SerializeAccount_Duplicate(position) ==
  [tag |-> "Duplicate", index |-> 0, account |-> NoAccount, position |-> position]

\* The arm of serialize_parameters for a full account up to and with its data.
\* The writes before write_account_data are taken together: marker, is_signer,
\* is_writable, executable, 4 bytes of padding, key, owner, lamports, data length.
account_head(account) ==
  <<NON_DUP_MARKER, bool_as_u8(account.is_signer), bool_as_u8(account.is_writable),
    bool_as_u8(account.executable), 0, 0, 0, 0>>
  \o account.key \o account.owner
  \o to_le_bytes(account.lamports, 8) \o to_le_bytes(Len(account.data), 8)
write_account_head(buffer, account) ==
  write_account_data(write_all(buffer, account_head(account)), account.data)

\* The body of the loop of serialize_parameters.
write_entry(buffer, entry) ==
  IF entry.tag = "Account"
  THEN write_u64(write_account_head(buffer, entry.account), entry.account.rent_epoch)
  ELSE write_all(buffer, <<entry.position % 256, 0, 0, 0, 0, 0, 0, 0>>)

\* The loop of serialize_parameters over the accounts: every entry written in turn,
\* a list of several as its first half and then its second half.
RECURSIVE write_entries(_, _)
write_entries(buffer, accounts) ==
  IF accounts = << >> THEN buffer
  ELSE IF Len(accounts) = 1 THEN write_entry(buffer, accounts[1])
  ELSE LET mid == Len(accounts) \div 2
           first == write_entries(buffer, SubSeq(accounts, 1, mid))
       IN \* the buffer only grows; asking so has the first half written before the
          \* second is begun
          IF buffer_len(first) >= buffer_len(buffer)
          THEN write_entries(first, SubSeq(accounts, mid + 1, Len(accounts)))
          ELSE first

\* serialize_parameters, which always returns Ok
serialize_parameters(accounts, instruction_data, program_id) ==
  LET s0 == write_u64(Serializer_new, Len(accounts))
      s1 == write_entries(s0, accounts)
  IN write_all(s1, to_le_bytes(Len(instruction_data), 8) \o instruction_data \o program_id)

\* The longest list of accounts and the longest account data looked at.
MaxMetas == 3
MaxData == 3

\* Pubkeys: the one of every byte equal to k.
Pubkey(k) == [i \in 1 .. PUBKEY_BYTES |-> k]

\* Account data and instruction data: n bytes, the i-th being i.
Bytes(n) == [i \in 1 .. n |-> i]
DataChoices == {Bytes(n) : n \in 0 .. MaxData}

\* All the lists of at most n elements of S.
ListsUpTo(S, n) == UNION {[1 .. k -> S] : k \in 0 .. n}

\* The entries handed to serialize_parameters: duplicates of the first two positions,
\* a full account with every data and another one.
EntryAccount(k, data) ==
  SerializeAccount_Account(0, Account_new(Pubkey(k), Pubkey(k + 1), k, data,
                                          k = 1, TRUE, FALSE, k))
EntryChoices ==
  {SerializeAccount_Duplicate(p) : p \in {0, 1}}
  \cup {EntryAccount(1, data) : data \in DataChoices}
  \cup {EntryAccount(2, Bytes(1))}

\* A caller of serialize_parameters has its arguments ready.
SerializeArgs ==
  {[fn |-> "serialize_parameters_args", accounts |-> accounts,
    instruction_data |-> instruction_data, program_id |-> Pubkey(7)] :
     accounts \in ListsUpTo(EntryChoices, MaxMetas), instruction_data \in {Bytes(0), Bytes(4)}}

\* serialize_parameters is called and returns the buffer.
serialize ==
  /\ calc.fn = "serialize_parameters_args"
  /\ calc' = [fn |-> "serialize_parameters", accounts |-> calc.accounts,
              instruction_data |-> calc.instruction_data, program_id |-> calc.program_id,
              out |-> serialize_parameters(calc.accounts, calc.instruction_data,
                                           calc.program_id)]
  /\ UNCHANGED <<dbg, running, event, nexec, xpc, front>>

\* ------------------------------------------------------------- generate
\* A path or file name is the sequence of its characters.
Slash == "/"
Dot == "."
DotHex == <<".", "h", "e", "x">>
DbgDir == <<".", "d", "b", "g">>

\* The part of s before the first slash, and the part after it (empty if none).
RECURSIVE first_component(_)
first_component(s) ==
  IF s = << >> \/ Head(s) = Slash THEN << >> ELSE <<Head(s)>> \o first_component(Tail(s))
RECURSIVE after_component(_)
after_component(s) ==
  IF s = << >> THEN << >> ELSE IF Head(s) = Slash THEN Tail(s) ELSE after_component(Tail(s))

\* Path::components, without the root and the current-directory components: the
\* non-empty parts between slashes other than ".".
RECURSIVE components(_)
components(path) ==
  IF path = << >> THEN << >>
  ELSE LET c == first_component(path)
           rest == components(after_component(path))
       IN IF c = << >> \/ c = <<Dot>> THEN rest ELSE <<c>> \o rest

\* Path::is_absolute / has_root
is_absolute(path) == path # << >> /\ Head(path) = Slash

\* Path::file_name: the last component unless it is "..".
NoName == [some |-> FALSE, val |-> << >>]
file_name(path) ==
  LET cs == components(path)
  IN IF cs = << >> \/ cs[Len(cs)] = <<Dot, Dot>> THEN NoName ELSE Some(cs[Len(cs)])

\* The place of the last dot of a name, 0 if it has none.
last_dot(name) ==
  IF \E i \in 1 .. Len(name) : name[i] = Dot
  THEN CHOOSE i \in 1 .. Len(name) : name[i] = Dot /\ \A j \in (i + 1) .. Len(name) : name[j] # Dot
  ELSE 0

\* Path::extension: what stands after the last dot of the file name, none if there
\* is no file name, no dot, or no dot but a leading one.
extension(path) ==
  LET name == file_name(path)
      i == last_dot(name.val)
  IN IF ~name.some \/ i <= 1 THEN NoName
     ELSE Some(SubSeq(name.val, i + 1, Len(name.val)))

\* Path::join: an absolute path replaces the base.
join(base, path) ==
  IF is_absolute(path) THEN path
  ELSE IF base = << >> \/ base[Len(base)] = Slash THEN base \o path
  ELSE base \o <<Slash>> \o path

\* Path::parent, for a path that does not end in a slash: what stands before the last
\* slash, the root for a name right under it, the empty path for a bare name.
parent(path) ==
  IF \E i \in 1 .. Len(path) : path[i] = Slash
  THEN LET i == CHOOSE i \in 1 .. Len(path) :
                  path[i] = Slash /\ \A j \in (i + 1) .. Len(path) : path[j] # Slash
       IN IF i = 1 THEN <<Slash>> ELSE SubSeq(path, 1, i - 1)
  ELSE << >>

\* The file system as generate meets it: the directories and the files there are,
\* a file with its content.  The root and the working directory always are.
Fs(dirs, files) == [dirs |-> dirs, files |-> files]
is_dir(fs, path) == path \in fs.dirs \cup {<<Slash>>, << >>}
is_file(fs, path) == \E f \in fs.files : f.path = path

\* create_dir_all for a path of one component: fine if the directory is there, an
\* error if a file has its name, and else the directory is made.
create_dir_all(fs, path) ==
  IF is_dir(fs, path) THEN [ok |-> TRUE, fs |-> fs]
  ELSE IF is_file(fs, path) THEN [ok |-> FALSE, fs |-> fs]
  ELSE [ok |-> TRUE, fs |-> Fs(fs.dirs \cup {path}, fs.files)]

\* The path with its ".." components followed, as the system does where there are no
\* symbolic links: each takes away the component before it.
RECURSIVE follow(_, _)
follow(cs, done) ==
  IF cs = << >> THEN done
  ELSE IF Head(cs) = <<Dot, Dot>> /\ done # << >> /\ done[Len(done)] # <<Dot, Dot>>
  THEN follow(Tail(cs), SubSeq(done, 1, Len(done) - 1))
  ELSE follow(Tail(cs), Append(done, Head(cs)))
RECURSIVE join_all(_)
join_all(cs) ==
  IF cs = << >> THEN << >>
  ELSE IF Len(cs) = 1 THEN cs[1]
  ELSE cs[1] \o <<Slash>> \o join_all(Tail(cs))
resolve(path) ==
  (IF is_absolute(path) THEN <<Slash>> ELSE << >>) \o join_all(follow(components(path), << >>))

\* File::create: an error if the path is a directory or its parent is none; else
\* the file is there, empty.  Files are kept under their resolved paths.
File_create(fs, path) ==
  LET p == resolve(path)
  IN IF is_dir(fs, p) \/ ~is_dir(fs, parent(p))
     THEN [ok |-> FALSE, fs |-> fs]
     ELSE [ok |-> TRUE,
           fs |-> Fs(fs.dirs, {f \in fs.files : f.path # p}
                              \cup {[path |-> p, content |-> << >>]})]

\* format!("{:02x}", byte): the two digits of a byte.
format_02x(byte) == <<HexDigits[(byte \div 16) + 1], HexDigits[(byte % 16) + 1]>>

\* The text generate writes: for every byte its two digits, then writeln!'s newline.
\* The text is kept like the buffer: a run [c, n] is the characters c standing n times.
hex_text(serialized_data) ==
  [i \in 1 .. Len(serialized_data.runs) |->
     [c |-> format_02x(serialized_data.runs[i].b), n |-> serialized_data.runs[i].n]]
  \o << [c |-> <<"\n">>, n |-> 1] >>

\* Results of generate.
GenOk == [ok |-> TRUE, err |-> "", key |-> << >>]
MissingAccount(key) == [ok |-> FALSE, err |-> "MissingAccount", key |-> key]
FileWriteError == [ok |-> FALSE, err |-> "FileWriteError", key |-> << >>]

\* AccountMeta, solana Account
AccountMeta(pubkey, is_signer, is_writable) ==
  [pubkey |-> pubkey, is_signer |-> is_signer, is_writable |-> is_writable]
SolAccount(lamports, data, owner, executable, rent_epoch) ==
  [lamports |-> lamports, data |-> data, owner |-> owner, executable |-> executable,
   rent_epoch |-> rent_epoch]

\* by_pubkey: the provided accounts collected into a HashMap, the last of a key
\* staying; get, and whether the key is there.
by_pubkey_has(accounts, key) == \E i \in 1 .. Len(accounts) : accounts[i].key = key
by_pubkey_get(accounts, key) ==
  accounts[CHOOSE i \in 1 .. Len(accounts) :
             /\ accounts[i].key = key
             /\ \A j \in (i + 1) .. Len(accounts) : accounts[j].key # key].account

\* convert_meta taking is_signer and is_writable from the last meta of the key.
convert_meta_last_flags(metas, accounts, i, seen) ==
  LET key == metas[i].pubkey
      meta == metas[CHOOSE x \in i .. Len(metas) :
                      /\ metas[x].pubkey = key
                      /\ \A y \in (x + 1) .. Len(metas) : metas[y].pubkey # key]
  IN IF key \in DOMAIN seen
     THEN [ok |-> TRUE, entries |-> <<SerializeAccount_Duplicate(seen[key] % 256)>>,
           key |-> << >>, seen |-> seen]
     ELSE IF ~by_pubkey_has(accounts, key)
     THEN [ok |-> FALSE, entries |-> << >>, key |-> key, seen |-> MapInsert(seen, key, i - 1)]
     ELSE LET provided == by_pubkey_get(accounts, key)
              account == Account_new(key, provided.owner, provided.lamports,
                                     provided.data, meta.is_signer, meta.is_writable,
                                     provided.executable, provided.rent_epoch)
          IN [ok |-> TRUE, entries |-> <<SerializeAccount_Account(i - 1, account)>>,
              key |-> << >>, seen |-> MapInsert(seen, key, i - 1)]

\* The body of generate's loop for the i-th meta (counted from 1, the code's i being
\* i - 1): the entry pushed and seen_pubkeys afterwards, or the key whose account is
\* missing.
convert_meta(metas, accounts, i, seen) ==
  LET meta == metas[i]
      key == meta.pubkey
  IN IF key \in DOMAIN seen
     THEN [ok |-> TRUE, entries |-> <<SerializeAccount_Duplicate(seen[key] % 256)>>,
           key |-> << >>, seen |-> seen]
     ELSE IF ~by_pubkey_has(accounts, key)
     THEN [ok |-> FALSE, entries |-> << >>, key |-> key, seen |-> MapInsert(seen, key, i - 1)]
     ELSE LET provided == by_pubkey_get(accounts, key)
              account == Account_new(key, provided.owner, provided.lamports,
                                     provided.data, meta.is_signer, meta.is_writable,
                                     provided.executable, provided.rent_epoch)
          IN [ok |-> TRUE, entries |-> <<SerializeAccount_Account(i - 1, account)>>,
              key |-> << >>, seen |-> MapInsert(seen, key, i - 1)]

\* The loop over the metas from the lo-th to the hi-th, in order, stopping at the
\* first missing account.  The stretch is gone through in two halves, the second
\* starting from what the first left, which is the same walk from lo to hi.
RECURSIVE convert_range(_, _, _, _, _)
convert_range(metas, accounts, lo, hi, seen) ==
  IF lo > hi THEN [ok |-> TRUE, entries |-> << >>, key |-> << >>, seen |-> seen]
  ELSE IF lo = hi THEN convert_meta(metas, accounts, lo, seen)
  ELSE LET mid == (lo + hi) \div 2
           first == convert_range(metas, accounts, lo, mid, seen)
       IN IF ~first.ok THEN first
          ELSE LET second == convert_range(metas, accounts, mid + 1, hi, first.seen)
               IN [second EXCEPT !.entries = first.entries \o @]

\* convert_metas with a duplicate marked by its own place in the list.
convert_metas_own_index(metas, accounts, i, seen) ==
  LET done == convert_range(metas, accounts, i, Len(metas), seen)
  IN [ok |-> done.ok,
      entries |-> [x \in 1 .. Len(done.entries) |->
                     IF done.entries[x].tag = "Duplicate"
                     THEN SerializeAccount_Duplicate((i + x - 2) % 256)
                     ELSE done.entries[x]],
      key |-> done.key]

\* The loop of generate over the account metas from the i-th on: the entries made,
\* or the key of the first meta whose account is missing.  seen is seen_pubkeys.
convert_metas(metas, accounts, i, seen) ==
  LET done == convert_range(metas, accounts, i, Len(metas), seen)
  IN [ok |-> done.ok, entries |-> done.entries, key |-> done.key]

\* generate with the directory made before the accounts are looked up.
generate_dir_first(instruction, accounts, output_name, fs) ==
  LET converted == convert_metas(instruction.accounts, accounts, 1, << >>)
      serialized_data == serialize_parameters(converted.entries, instruction.data,
                                              instruction.program_id)
      made == create_dir_all(fs, DbgDir)
      name == IF extension(output_name) = NoName THEN output_name \o DotHex ELSE output_name
      output_path == join(DbgDir, name)
      created == File_create(made.fs, output_path)
  IN IF ~made.ok THEN [result |-> FileWriteError, fs |-> made.fs]
     ELSE IF ~converted.ok THEN [result |-> MissingAccount(converted.key), fs |-> made.fs]
     ELSE IF ~created.ok THEN [result |-> FileWriteError, fs |-> created.fs]
     ELSE [result |-> GenOk,
           fs |-> Fs(created.fs.dirs,
                     {f \in created.fs.files : f.path # resolve(output_path)}
                     \cup {[path |-> resolve(output_path),
                             content |-> hex_text(serialized_data)]})]

\* generate: its result and the file system afterwards.
generate(instruction, accounts, output_name, fs) ==
  LET converted == convert_metas(instruction.accounts, accounts, 1, << >>)
      serialized_data == serialize_parameters(converted.entries, instruction.data,
                                              instruction.program_id)
      made == create_dir_all(fs, DbgDir)
      name == IF extension(output_name) = NoName THEN output_name \o DotHex ELSE output_name
      output_path == join(DbgDir, name)
      created == File_create(made.fs, output_path)
  IN IF ~converted.ok THEN [result |-> MissingAccount(converted.key), fs |-> fs]
     ELSE IF ~made.ok THEN [result |-> FileWriteError, fs |-> made.fs]
     ELSE IF ~created.ok THEN [result |-> FileWriteError, fs |-> created.fs]
     ELSE [result |-> GenOk,
           fs |-> Fs(created.fs.dirs,
                     {f \in created.fs.files : f.path # resolve(output_path)}
                     \cup {[path |-> resolve(output_path),
                             content |-> hex_text(serialized_data)]})]

\* The account metas of an instruction: three keys, the first also with other flags.
MetaChoices ==
  {AccountMeta(Pubkey(1), TRUE, TRUE), AccountMeta(Pubkey(1), FALSE, FALSE),
   AccountMeta(Pubkey(2), FALSE, TRUE), AccountMeta(Pubkey(3), FALSE, FALSE)}

\* A provided account: the key with the account under it.
Provided(k, data) ==
  [key |-> Pubkey(k),
   account |-> SolAccount(k, data, Pubkey(k + 3), k = 3, k + 1)]

\* The lists of provided accounts: none, the first key, the first two with every
\* data for the second, and all three with the first key given twice.
ProvidedChoices ==
  {<< >>, <<Provided(1, Bytes(1))>>,
   <<Provided(1, Bytes(0)), Provided(1, Bytes(1)), Provided(2, Bytes(2)), Provided(3, Bytes(0))>>}
  \cup {<<Provided(1, Bytes(1)), Provided(2, data)>> : data \in DataChoices}

\* Output names: bare, with an extension, with a leading dot only, ending in a dot,
\* inside a directory, absolute, and leading out of the directory.
NameOut == <<"o", "u", "t">>
NameChoices ==
  {NameOut, NameOut \o <<".", "b", "i", "n">>, <<".">> \o NameOut, NameOut \o <<".">>,
   <<"s", "u", "b", "/">> \o NameOut, <<"/">> \o NameOut, <<".", ".", "/">> \o NameOut}

\* The file system before the call: nothing there; the directory there with an older
\* file of the name; a file where the directory should be.
FsEmpty == Fs({}, {})
FsOlder ==
  Fs({DbgDir}, {[path |-> DbgDir \o <<Slash>> \o NameOut \o DotHex,
                 content |-> << [c |-> <<"0", "0">>, n |-> 1], [c |-> <<"\n">>, n |-> 1] >>]})
FsBlocked == Fs({}, {[path |-> DbgDir, content |-> << >>]})
NameFsChoices ==
  {[name |-> name, fs |-> FsEmpty] : name \in NameChoices}
  \cup {[name |-> NameOut, fs |-> fs] : fs \in {FsOlder, FsBlocked}}

\* A caller of generate has its arguments ready.
GenerateArgs ==
  {[fn |-> "generate_args",
    instruction |-> [program_id |-> Pubkey(7), accounts |-> metas, data |-> Bytes(2)],
    accounts |-> accounts, output_name |-> nf.name, fs |-> nf.fs] :
     metas \in ListsUpTo(MetaChoices, MaxMetas), accounts \in ProvidedChoices,
     nf \in NameFsChoices}

\* generate is called and returns.
generate_call ==
  /\ calc.fn = "generate_args"
  /\ LET done == generate(calc.instruction, calc.accounts, calc.output_name, calc.fs)
     IN calc' = [fn |-> "generate", instruction |-> calc.instruction,
                 accounts |-> calc.accounts, output_name |-> calc.output_name,
                 before |-> calc.fs, result |-> done.result, fs |-> done.fs]
  /\ UNCHANGED <<dbg, running, event, nexec, xpc, front>>

SerInit ==
  /\ dbg = Debugger_new(0, None)
  /\ running = FALSE
  /\ event = NoEvent
  /\ nexec = 0
  /\ xpc = None
  /\ front = NoFront
  /\ \/ calc \in SerializeArgs
     \/ calc \in GenerateArgs

SerNext ==
  \/ serialize
  \/ generate_call

SerSpec == SerInit /\ [][SerNext]_vars

\* The size C22 gives an entry that starts at the offset at from the start of the
\* buffer: 8 for a duplicate; for a full account 8 + 32 + 32 + 8 + 8, the data, the
\* 10240 bytes of realloc room, the fewest bytes that bring the offset to a multiple
\* of 16, and 8.
EntrySize(entry, at) ==
  IF entry.tag = "Duplicate" THEN 8
  ELSE LET unpadded == 8 + 32 + 32 + 8 + 8 + Len(entry.account.data) + 10240
           pad_to_16 == CHOOSE p \in 0 .. 15 :
                          /\ (at + unpadded + p) % 16 = 0
                          /\ \A q \in 0 .. (p - 1) : (at + unpadded + q) % 16 # 0
       IN unpadded + pad_to_16 + 8
RECURSIVE EntrySizes(_, _)
EntrySizes(accounts, at) ==
  IF accounts = << >> THEN 0
  ELSE LET size == EntrySize(Head(accounts), at)
       IN size + EntrySizes(Tail(accounts), at + size)

\* The number of bytes of a sequence of runs.
RECURSIVE RunsLen(_)
RunsLen(runs) == IF runs = << >> THEN 0 ELSE Head(runs).n + RunsLen(Tail(runs))

\* C22: the buffer serialize_parameters returns is 8 bytes, the sizes of the entries,
\* 8 bytes, the instruction data and 32 bytes long.
C22_SerializedLength ==
  calc.fn = "serialize_parameters" =>
    /\ buffer_len(calc.out) =
         8 + EntrySizes(calc.accounts, 8) + 8 + Len(calc.instruction_data) + 32
    /\ RunsLen(calc.out.runs) = buffer_len(calc.out)

\* A list with a duplicate before a full account of three bytes of data, and
\* instruction data, was serialized.
C22_Witness ==
  /\ calc.fn = "serialize_parameters"
  /\ calc.instruction_data # << >>
  /\ \E i, j \in 1 .. Len(calc.accounts) :
       /\ i < j
       /\ calc.accounts[i].tag = "Duplicate"
       /\ calc.accounts[j].tag = "Account"
       /\ Len(calc.accounts[j].account.data) = 3
  /\ buffer_len(calc.out) > 10240

\* The buffer serialize_parameters has when it has written the entries before the i-th,
\* and the one it has just before it writes the rent_epoch of an account that starts
\* at the end of the buffer at.
BufferAtEntry(accounts, i) ==
  write_entries(write_u64(Serializer_new, Len(accounts)), SubSeq(accounts, 1, i - 1))
BufferBeforeRentEpoch(at, account) == write_account_head(at, account)

\* The bytes of the first buffer are the first bytes of the second.
IsPrefix(first, second) ==
  LET k == Len(first.runs)
  IN \/ k = 0
     \/ /\ k <= Len(second.runs)
        /\ SubSeq(second.runs, 1, k - 1) = SubSeq(first.runs, 1, k - 1)
        /\ first.runs[k].b = second.runs[k].b
        /\ first.runs[k].n <= second.runs[k].n

\* The padding before the rent_epoch of such an account: what the buffer has more than
\* the 88 bytes up to the data length, the data and the 10240 bytes of realloc room.
PaddingBefore(at, account) ==
  buffer_len(BufferBeforeRentEpoch(at, account))
  - (buffer_len(at) + 88 + Len(account.data) + 10240)

\* C24: just before the rent_epoch of every full record is written the length of the
\* whole buffer is a multiple of 16; the padding is 0..15 zero bytes standing after
\* the 10240 bytes of realloc room; and what was written so far stays in the output.
C24_RentEpochAligned ==
  calc.fn = "serialize_parameters" =>
    \A i \in 1 .. Len(calc.accounts) :
      calc.accounts[i].tag = "Account" =>
        LET at == BufferAtEntry(calc.accounts, i)
            before == BufferBeforeRentEpoch(at, calc.accounts[i].account)
            padding == buffer_len(before)
                       - (buffer_len(at) + 88 + Len(calc.accounts[i].account.data) + 10240)
            last == before.runs[Len(before.runs)]
        IN /\ buffer_len(before) % 16 = 0
           /\ padding \in 0 .. 15
           /\ last.b = 0
           /\ last.n >= 10240 + padding
           /\ IsPrefix(before, calc.out)
           /\ buffer_len(calc.out) >= buffer_len(before) + 8

\* A full account that follows a duplicate, so that its data starts off the 16-byte
\* grid, was serialized with padding, and another account with none.
C24_Witness ==
  /\ calc.fn = "serialize_parameters"
  /\ \E i, j \in 1 .. Len(calc.accounts) :
       /\ i > 1
       /\ calc.accounts[i - 1].tag = "Duplicate"
       /\ calc.accounts[i].tag = "Account"
       /\ calc.accounts[j].tag = "Account"
       /\ PaddingBefore(BufferAtEntry(calc.accounts, i), calc.accounts[i].account) > 0
       /\ PaddingBefore(BufferAtEntry(calc.accounts, j), calc.accounts[j].account) = 0
       /\ (buffer_len(BufferAtEntry(calc.accounts, i)) + 88) % 16 # 0

\* The file generate has written: the one that was not there, or not so, before.
WrittenFile == CHOOSE f \in calc.fs.files \ calc.before.files : TRUE

\* The bytes a hex text stands for, as runs: every run of two digits is the byte with
\* these digits, the newline at the end left out.
HexValue(ch) == (CHOOSE i \in 1 .. 16 : HexDigits[i] = ch) - 1
DecodeHex(content) ==
  [i \in 1 .. (Len(content) - 1) |->
     [b |-> 16 * HexValue(content[i].c[1]) + HexValue(content[i].c[2]), n |-> content[i].n]]

\* The byte at the offset k, counted from 0, of a sequence of runs.
RECURSIVE ByteAt(_, _)
ByteAt(runs, k) ==
  IF k < Head(runs).n THEN Head(runs).b ELSE ByteAt(Tail(runs), k - Head(runs).n)

\* The bytes from the offset k on are those of data.
BytesAt(runs, k, data) == \A x \in 1 .. Len(data) : ByteAt(runs, k + x - 1) = data[x]

\* The first place in the metas of the key of the i-th, and the account provided for
\* a key (the last one given under it).
FirstIndex(metas, i) ==
  CHOOSE j \in 1 .. i :
    /\ metas[j].pubkey = metas[i].pubkey
    /\ \A k \in 1 .. (j - 1) : metas[k].pubkey # metas[i].pubkey
ProvidedFor(accounts, key) ==
  LET places == {x \in 1 .. Len(accounts) : accounts[x].key = key}
  IN accounts[CHOOSE x \in places : \A y \in places : y <= x].account

\* The entries as the claims describe them, by place: a duplicate for a key met
\* before, a full account for a key met first.
ExpectedEntries(metas, accounts) ==
  [i \in 1 .. Len(metas) |->
     IF FirstIndex(metas, i) < i
     THEN [tag |-> "Duplicate",
           account |-> [data |-> << >>]]
     ELSE [tag |-> "Account",
           account |-> [data |-> ProvidedFor(accounts, metas[i].pubkey).data]]]

\* The offset at which the i-th of the entries starts, after the 8 bytes of the count.
RECURSIVE EntryOffset(_, _)
EntryOffset(entries, i) ==
  IF i = 1 THEN 8
  ELSE LET at == EntryOffset(entries, i - 1)
       IN at + EntrySize(entries[i - 1], at)

\* C23: in the output of generate the entries stand in the order of the metas; the
\* entry of a meta whose key was met before, first at place j (from 0), is the byte j
\* and 7 zero bytes and nothing more; the entry of a key met first is a full record
\* that starts with 0xFF and holds the key and the provided data.
C23_DuplicateAliasing ==
  (calc.fn = "generate" /\ calc.result.ok) =>
    LET metas == calc.instruction.accounts
        entries == ExpectedEntries(metas, calc.accounts)
        bytes == DecodeHex(WrittenFile.content)
        end == EntryOffset(entries, Len(metas) + 1)
    IN /\ \A i \in 1 .. Len(metas) :
            LET j == FirstIndex(metas, i)
                at == EntryOffset(entries, i)
            IN /\ j < i => /\ BytesAt(bytes, at, <<j - 1, 0, 0, 0, 0, 0, 0, 0>>)
                           /\ EntryOffset(entries, i + 1) = at + 8
               /\ j = i => /\ ByteAt(bytes, at) = 255
                           /\ BytesAt(bytes, at + 8, metas[i].pubkey)
                           /\ BytesAt(bytes, at + 88, entries[i].account.data)
       /\ BytesAt(bytes, end, <<Len(calc.instruction.data), 0, 0, 0, 0, 0, 0, 0>>)
       /\ BytesAt(bytes, end + 8, calc.instruction.data)
       /\ BytesAt(bytes, end + 8 + Len(calc.instruction.data), calc.instruction.program_id)
       /\ RunsLen(bytes) = end + 8 + Len(calc.instruction.data) + 32

\* generate wrote the file for three metas, the third with the key of the second, whose
\* account has data.
C23_Witness ==
  /\ calc.fn = "generate"
  /\ calc.result.ok
  /\ Len(calc.instruction.accounts) = 3
  /\ calc.instruction.accounts[3].pubkey = calc.instruction.accounts[2].pubkey
  /\ calc.instruction.accounts[2].pubkey # calc.instruction.accounts[1].pubkey
  /\ ProvidedFor(calc.accounts, calc.instruction.accounts[2].pubkey).data # << >>
  /\ ByteAt(DecodeHex(WrittenFile.content),
            EntryOffset(ExpectedEntries(calc.instruction.accounts, calc.accounts), 3)) = 1

\* The places of the metas whose key has no provided account.
AbsentPlaces(metas, accounts) ==
  {i \in 1 .. Len(metas) : \A x \in 1 .. Len(accounts) : accounts[x].key # metas[i].pubkey}

\* What C25 says of a call with a key absent: MissingAccount of the first absent key,
\* and nothing created or written.
MissingLaw ==
  LET metas == calc.instruction.accounts
      absent == AbsentPlaces(metas, calc.accounts)
  IN absent # {} =>
       /\ calc.result = MissingAccount(metas[CHOOSE i \in absent : \A k \in absent : i <= k].pubkey)
       /\ calc.fs = calc.before

Generated == calc.fn = "generate" /\ calc.result.ok

\* The text of the written file is two lowercase hex digits for every byte and one
\* newline at the end, and its bytes are those serialize_parameters returned.
LowerHexDigits == {"0", "1", "2", "3", "4", "5", "6", "7", "8", "9", "a", "b", "c", "d", "e", "f"}
HexLaw ==
  Generated =>
    LET content == WrittenFile.content
        serialized == serialize_parameters(
                        convert_metas(calc.instruction.accounts, calc.accounts, 1, << >>).entries,
                        calc.instruction.data, calc.instruction.program_id)
    IN /\ Len(content) >= 1
       /\ content[Len(content)] = [c |-> <<"\n">>, n |-> 1]
       /\ \A i \in 1 .. (Len(content) - 1) :
            /\ Len(content[i].c) = 2
            /\ content[i].c[1] \in LowerHexDigits
            /\ content[i].c[2] \in LowerHexDigits
       /\ DecodeHex(content) = serialized.runs
       /\ RunsLen(DecodeHex(content)) = buffer_len(serialized)

\* The written file is in the directory .dbg or below it.
UnderDbgLaw ==
  Generated =>
    LET path == WrittenFile.path
    IN /\ Len(path) > Len(DbgDir) + 1
       /\ SubSeq(path, 1, Len(DbgDir) + 1) = DbgDir \o <<Slash>>
       /\ \A x \in 1 .. Len(components(path)) : components(path)[x] # <<Dot, Dot>>

\* The name has an extension: the part after its last slash has a dot that is not
\* its first character.
HasExtension(name) ==
  \E x \in 2 .. Len(name) :
    /\ name[x] = Dot
    /\ name[x - 1] # Slash
    /\ \A y \in x .. Len(name) : name[y] # Slash

\* The file is named as requested, with ".hex" after the name if and only if the name
\* has no extension.
ExtensionLaw ==
  Generated =>
    LET name == calc.output_name
        written == IF HasExtension(name) THEN name ELSE name \o DotHex
        LastPart(q) == components(q)[Len(components(q))]
    IN LastPart(WrittenFile.path) = LastPart(written)

\* C26: the file generate writes is the hex text of the serializer's output with one
\* newline; it is under .dbg/; and ".hex" is appended to the requested name only when
\* the name has no extension.
C26_HexFile == HexLaw /\ UnderDbgLaw /\ ExtensionLaw

\* ------------------------------------------------------------- line rows
\* The longest line program looked at.
MaxRows == 3

\* The rows a line program may yield: every address under every line, line 0 being
\* a row without a line.
RowChoices == {Row(address, line) : address \in PcVals, line \in LineVals}

\* A line program is about to be read.
RowsArgs == {[fn |-> "rows", rows |-> rows] : rows \in ListsUpTo(RowChoices, MaxRows)}

\* LineMap::from_elf_data reads the rows and returns the map.
load_line_map ==
  /\ calc.fn = "rows"
  /\ calc' = [fn |-> "from_elf_data", rows |-> calc.rows, map |-> from_elf_data(calc.rows)]
  /\ UNCHANGED <<dbg, running, event, nexec, xpc, front>>

LineInit ==
  /\ dbg = Debugger_new(0, None)
  /\ running = FALSE
  /\ event = NoEvent
  /\ nexec = 0
  /\ xpc = None
  /\ front = NoFront
  /\ calc \in RowsArgs

LineNext == load_line_map

LineSpec == LineInit /\ [][LineNext]_vars

\* C27: after any sequence of rows every PC that has a line is in the list of PCs of
\* exactly one line, it is in the list of a line if and only if that line is its
\* line, and it has a source location.
C27_LineMapBijection ==
  calc.fn = "from_elf_data" =>
    LET m == calc.map
    IN \A P \in DOMAIN m.address_to_line :
         /\ Cardinality({L \in DOMAIN m.line_to_addresses :
                           P \in SeqRange(LineMap_get_pcs_for_line(m, L))}) = 1
         /\ \A L \in LineVals :
              (LineMap_get_line_for_pc(m, P) = Some(L))
                <=> (P \in SeqRange(LineMap_get_pcs_for_line(m, L)))
         /\ P \in DOMAIN m.source_locations

\* ------------------------------------------------------------- --input
\* The longest --input value looked at.
MaxInput == 4

\* The characters of an --input value: digits, the comma, the blank, a sign and a
\* letter.
Digits == <<"0", "1", "2", "3", "4", "5", "6", "7", "8", "9">>
InputChars == {"0", "2", "5", "6", ",", " ", "+", "x"}
IsDigit(ch) == \E i \in 1 .. 10 : Digits[i] = ch
DigitValue(ch) == (CHOOSE i \in 1 .. 10 : Digits[i] = ch) - 1

\* str::trim
RECURSIVE trim_start(_)
trim_start(s) == IF s # << >> /\ Head(s) = " " THEN trim_start(Tail(s)) ELSE s
RECURSIVE trim_end(_)
trim_end(s) ==
  IF s # << >> /\ s[Len(s)] = " " THEN trim_end(SubSeq(s, 1, Len(s) - 1)) ELSE s
trim(s) == trim_end(trim_start(s))

\* str::split(','): the parts between the commas, one more than there are commas.
RECURSIVE split_comma(_, _)
split_comma(s, part) ==
  IF s = << >> THEN <<part>>
  ELSE IF Head(s) = "," THEN <<part>> \o split_comma(Tail(s), << >>)
  ELSE split_comma(Tail(s), Append(part, Head(s)))

\* The number a string of digits stands for, the 256 standing for all above 255.
RECURSIVE digits_value(_, _)
digits_value(s, acc) ==
  IF s = << >> THEN acc
  ELSE digits_value(Tail(s), Min(256, acc * 10 + DigitValue(Head(s))))

\* str::parse::<u8>: an optional plus sign, then one digit or more, the number at
\* most 255.
parse_u8(s) ==
  LET digits == IF s # << >> /\ Head(s) = "+" THEN Tail(s) ELSE s
  IN IF digits = << >> \/ \E i \in 1 .. Len(digits) : ~IsDigit(digits[i]) THEN None
     ELSE IF digits_value(digits, 0) > 255 THEN None
     ELSE Some(digits_value(digits, 0))

\* The loop of main over the parts: the bytes, or the exit with status 1 at the first
\* part that does not parse.
RECURSIVE parse_parts(_, _)
parse_parts(parts, bytes) ==
  IF parts = << >> THEN [ok |-> TRUE, bytes |-> bytes]
  ELSE LET trimmed == trim(Head(parts))
       IN IF trimmed = << >> THEN parse_parts(Tail(parts), bytes)
          ELSE IF parse_u8(trimmed).some
          THEN parse_parts(Tail(parts), Append(bytes, parse_u8(trimmed).val))
          ELSE [ok |-> FALSE, bytes |-> << >>]

\* main: let mut mem: Vec<u8> = if !args.input.trim().is_empty() { .. } else { Vec::new() }
parse_input(input) ==
  IF trim(input) # << >>
  THEN parse_parts(split_comma(input, << >>), << >>)
  ELSE [ok |-> TRUE, bytes |-> << >>]

\* The debugger is started with an --input value.
InputArgs == {[fn |-> "input_arg", input |-> input] : input \in ListsUpTo(InputChars, MaxInput)}

\* main reads the value.
read_input ==
  /\ calc.fn = "input_arg"
  /\ calc' = [fn |-> "parse_input", input |-> calc.input, result |-> parse_input(calc.input)]
  /\ UNCHANGED <<dbg, running, event, nexec, xpc, front>>

InputInit ==
  /\ dbg = Debugger_new(0, None)
  /\ running = FALSE
  /\ event = NoEvent
  /\ nexec = 0
  /\ xpc = None
  /\ front = NoFront
  /\ calc \in InputArgs

InputNext == read_input

InputSpec == InputInit /\ [][InputNext]_vars

\* A component is a decimal u8: digits only, and the number at most 255.
IsDecimalU8(s) ==
  /\ s # << >>
  /\ \A i \in 1 .. Len(s) : IsDigit(s[i])
  /\ digits_value(s, 0) <= 255

\* The components of a value: its parts between commas without the blanks around
\* them, the empty ones left out.
Components(input) ==
  LET parts == split_comma(input, << >>)
  IN SelectSeq([i \in 1 .. Len(parts) |-> trim(parts[i])], LAMBDA part : part # << >>)

\* C28: an empty value, the value "0" and a value of blanks give an empty input; a
\* value with a component that is not a decimal u8 is fatal; any other value gives
\* the numbers of its components in order.
C28_InputBytes ==
  calc.fn = "parse_input" =>
    LET comps == Components(calc.input)
        bad == \E i \in 1 .. Len(comps) : ~IsDecimalU8(comps[i])
    IN /\ (trim(calc.input) = << >> \/ calc.input = <<"0">>) =>
            calc.result = [ok |-> TRUE, bytes |-> << >>]
       /\ bad <=> ~calc.result.ok
       /\ (~bad /\ calc.input # <<"0">>) =>
            calc.result = [ok |-> TRUE,
                           bytes |-> [i \in 1 .. Len(comps) |->
                                        digits_value(comps[i], 0)]]

\* C29: once run() has returned Exit or Error, the operation that follows calls
\* interpreter.step() no more and takes nothing from the compute meter.
C29_TerminalStates ==
  [][event.type \in {"Exit", "Error"} =>
       /\ nexec' = 0
       /\ dbg'.compute_meter = dbg.compute_meter
       /\ dbg'.due_insn_count = dbg.due_insn_count]_vars

\* ------------------------------------------------------------- run() returning
\* The loop of run() in Continue mode is sequential code that goes on as long as it
\* has not returned: a further pass is always taken in the end.
LiveSpec == Init /\ [][Next]_vars /\ WF_vars(continue_loop)

\* C30: every run() returns an event: in Step mode after at most one call of
\* interpreter.step(), and in Continue mode in the end, whatever the program does.
C30_RunReturns ==
  /\ [][dbg'.debug_mode = "Step" => (~running' /\ nexec' <= 1)]_vars
  /\ (running ~> ~running)

\* ------------------------------------------------------------- the PC left to the program
\* set_register on a register other than r11.
set_reg_other ==
  /\ ~running
  /\ \E idx \in RegIndices \ {11}, value \in RegVals :
       Managed(set_register(dbg, idx, value).d)

\* The engine's operations without a write of r11 through set_register.
PcKeptNext ==
  \/ step
  \/ continue
  \/ continue_loop
  \/ set_bp
  \/ set_bp_line
  \/ remove_bp_line
  \/ clear_bps
  \/ set_reg_other

PcKeptSpec == Init /\ [][PcKeptNext]_vars

\* This pass of run() called interpreter.step().  The count of calls stops at two;
\* from there on a pass of the Continue loop has made the call unless it returned
\* Breakpoint from the pre-step check.
Executes ==
  /\ RunPass
  /\ IF ExecBefore < 2 THEN nexec' > ExecBefore ELSE event'.type # "Breakpoint"

\* C31, the part about the engine's record: with r11 never written through
\* set_register, a pass of run() that executes the instruction at a PC which is in
\* breakpoints at that time is the first pass of a run() entered with
\* at_breakpoint = TRUE and last_breakpoint_pc = Some(that PC).
C31_ExecutedFromBreakState ==
  [][ (Executes /\ get_pc(dbg) \in dbg.breakpoints) =>
        /\ ~running
        /\ dbg.at_breakpoint
        /\ dbg.last_breakpoint_pc = Some(get_pc(dbg)) ]_vars

\* C31 as stated: with r11 never written through set_register, an instruction whose
\* PC is in breakpoints when it executes is executed only by a run() entered with
\* at_breakpoint = TRUE and last_breakpoint_pc = Some(that PC), and the event
\* returned by the run() before it, when run() was the operation directly before,
\* was Breakpoint for that PC.
C31_NoUnannouncedExecution ==
  [][ (Executes /\ get_pc(dbg) \in dbg.breakpoints) =>
        /\ ~running
        /\ dbg.at_breakpoint
        /\ dbg.last_breakpoint_pc = Some(get_pc(dbg))
        /\ event # NoEvent =>
             event = Breakpoint(get_pc(dbg), get_line_for_pc(dbg, get_pc(dbg))) ]_vars

\* C32: in every state the engine's operations reach, at_breakpoint is TRUE exactly
\* when last_breakpoint_pc is Some(_); so a pass of run() that reaches the pre-step
\* check finds last_breakpoint_pc = None, and on a PC that is in breakpoints it
\* always stops with Breakpoint: the debounce test suppresses nothing.
C32_DebounceFieldsTogether ==
  /\ [](dbg.at_breakpoint <=> dbg.last_breakpoint_pc.some)
  /\ [][ (RunPass /\ ~dbg.at_breakpoint) =>
           /\ dbg.last_breakpoint_pc = None
           /\ get_pc(dbg) \in dbg.breakpoints =>
                /\ event' = Breakpoint(get_pc(dbg), get_line_for_pc(dbg, get_pc(dbg)))
                /\ nexec' = ExecBefore
                /\ dbg'.at_breakpoint
                /\ dbg'.last_breakpoint_pc = Some(get_pc(dbg)) ]_vars

\* C32 happens: a Continue run left a breakpoint by executing its instruction, which
\* jumped to itself, and the pre-step check of the next pass stopped there again.
C32_Witness ==
  /\ dbg.debug_mode = "Continue"
  /\ event.type = "Breakpoint"
  /\ nexec = 1
  /\ xpc = Some(event.pc)
  /\ dbg.at_breakpoint
  /\ dbg.last_breakpoint_pc = Some(event.pc)

\* The record d1 differs from d in the two breakpoint sets at most.
OnlyBreakpointSets(d, d1) ==
  d1 = [d EXCEPT !.breakpoints = d1.breakpoints, !.line_breakpoints = d1.line_breakpoints]

\* C33: set_breakpoint, set_breakpoint_at_line, remove_breakpoint_at_line and
\* clear_breakpoints change the two breakpoint sets and nothing else: registers (the
\* PC among them), the meter, the mode, at_breakpoint and last_breakpoint_pc stay.  So
\* a run() entered with at_breakpoint = TRUE on a PC that is no longer in breakpoints
\* still executes the instruction there first, and does so without a Breakpoint event
\* for that PC before it.
C33_BreakpointOpsKeepExecution ==
  /\ [](/\ \A pc \in PcVals : OnlyBreakpointSets(dbg, set_breakpoint(dbg, pc))
        /\ \A line \in LineVals :
             /\ OnlyBreakpointSets(dbg, set_breakpoint_at_line(dbg, line))
             /\ OnlyBreakpointSets(dbg, remove_breakpoint_at_line(dbg, line))
        /\ \A file \in FileNames : OnlyBreakpointSets(dbg, clear_breakpoints(dbg, file)))
  /\ [][ (~running /\ RunPass /\ dbg.at_breakpoint /\ get_pc(dbg) \notin dbg.breakpoints) =>
           /\ nexec' = 1
           /\ xpc' = Some(get_pc(dbg))
           /\ event'.type = "Breakpoint" => event'.pc = get_pc(dbg') ]_vars

\* C33 happens: the engine stopped at a breakpoint, the breakpoint was taken away,
\* and the engine still counts as stopped there.
C33_Witness ==
  /\ event = NoEvent
  /\ dbg.at_breakpoint
  /\ dbg.last_breakpoint_pc = Some(get_pc(dbg))
  /\ get_pc(dbg) \notin dbg.breakpoints
  /\ dbg.breakpoints # {}

\* C33 happens on: the run() after that executed the instruction whose breakpoint
\* had been taken away and reported the PC it arrived at.
C33_WitnessRun ==
  /\ dbg.debug_mode = "Step"
  /\ event.type = "Step"
  /\ nexec = 1
  /\ xpc.some /\ xpc.val \notin dbg.breakpoints
  /\ event.pc # xpc.val

\* The record with another LineMap in place of its own.
WithMap(d, line_map) == [d EXCEPT !.dwarf_line_map = line_map]

\* Two passes of run() came out alike but for the LineMap and the line of the event.
AlikeButLines(r1, r2) ==
  /\ r1.n = r2.n
  /\ r1.ev.type = r2.ev.type
  /\ r1.ev.pc = r2.ev.pc
  /\ r1.ev.code = r2.ev.code
  /\ WithMap(r1.d, None) = WithMap(r2.d, None)

\* Every frame get_stack_frames gives for d has name and file "?" and line 0.
FramesUnknown(d) ==
  LET frames == ValueUnder(DI_get_stack_frames(d), "frames").a
  IN \A i \in 1 .. Len(frames) :
       /\ ValueUnder(frames[i], "name") = JStr("?")
       /\ ValueUnder(frames[i], "file") = JStr("?")
       /\ ValueUnder(frames[i], "line") = JNum(0)

U8_VALUES == 256

\* The provided accounts of the long lists: one for every key there is of one
\* repeated byte, each without data.
WideProvided ==
  [k \in 1 .. U8_VALUES |->
     [key |-> Pubkey(k - 1),
      account |-> SolAccount(k - 1, << >>, Pubkey(0), FALSE, 0)]]

\* n metas of n different keys, then one more with the key of the meta at place j
\* (counted from 0).
WideMetas(n, j) ==
  [i \in 1 .. (n + 1) |-> AccountMeta(Pubkey(IF i <= n THEN i - 1 ELSE j), FALSE, TRUE)]

\* The lists looked at: short ones, and the two that bring the first occurrence of the
\* repeated key to the last places a u8 can name.
WideLists ==
  {WideMetas(n, j) : n \in 1 .. 5, j \in 0 .. 4} \cup
  {WideMetas(n, j) : n \in {U8_VALUES - 1, U8_VALUES}, j \in {0, U8_VALUES - 2, U8_VALUES - 1}}

\* A caller of generate has a list of metas whose last one repeats a key.
WideArgs ==
  {[fn |-> "generate_args",
    instruction |-> [program_id |-> Pubkey(7), accounts |-> metas, data |-> data],
    accounts |-> WideProvided, output_name |-> name, fs |-> FsEmpty] :
     metas \in {l \in WideLists : l[Len(l)].pubkey \in {l[i].pubkey : i \in 1 .. (Len(l) - 1)}},
     data \in {Bytes(0), Bytes(2)},
     name \in {NameOut, NameOut \o <<".", "b", "i", "n">>}}

WideInit ==
  /\ dbg = Debugger_new(0, None)
  /\ running = FALSE
  /\ event = NoEvent
  /\ nexec = 0
  /\ xpc = None
  /\ front = NoFront
  /\ calc \in WideArgs

WideNext == generate_call

WideSpec == WideInit /\ [][WideNext]_vars

\* The offsets at which the entries of the metas from the lo-th to the hi-th start,
\* the lo-th starting at the offset at, and after them the offset at which the hi-th
\* ends.
RECURSIVE OffsetsFrom(_, _, _, _, _)
OffsetsFrom(metas, accounts, lo, hi, at) ==
  IF lo > hi THEN <<at>>
  ELSE IF lo = hi
  THEN LET entry == IF FirstIndex(metas, lo) < lo
                    THEN [tag |-> "Duplicate", account |-> [data |-> << >>]]
                    ELSE [tag |-> "Account",
                          account |-> [data |-> ProvidedFor(accounts, metas[lo].pubkey).data]]
       IN <<at, at + EntrySize(entry, at)>>
  ELSE LET mid == (lo + hi) \div 2
           first == OffsetsFrom(metas, accounts, lo, mid, at)
       IN SubSeq(first, 1, Len(first) - 1)
          \o OffsetsFrom(metas, accounts, mid + 1, hi, first[Len(first)])

\* The byte that stands k bytes before the end of the runs up to the r-th, k = 0
\* being the last.
RECURSIVE ByteBack(_, _, _)
ByteBack(runs, r, k) ==
  IF k < runs[r].n THEN runs[r].b ELSE ByteBack(runs, r - 1, k - runs[r].n)

\* C35 as stated: in the file generate wrote, for every list of account metas, the
\* entry of a meta whose key was met before starts with a byte equal to the index of
\* the key's first occurrence, which is at most 254; so that byte is never 0xFF, the
\* marker of a full entry.
C35_DuplicateMarker ==
  (calc.fn = "generate" /\ calc.result.ok) =>
    LET metas == calc.instruction.accounts
        offsets == OffsetsFrom(metas, calc.accounts, 1, Len(metas), 8)
        total == offsets[Len(metas) + 1] + 8 + Len(calc.instruction.data) + PUBKEY_BYTES
        bytes == DecodeHex(WrittenFile.content)
    IN \A i \in 1 .. Len(metas) :
         LET first_index == FirstIndex(metas, i) - 1
             marker == ByteBack(bytes, Len(bytes), total - 1 - offsets[i])
         IN first_index < i - 1 =>
              /\ first_index <= 254
              /\ marker = first_index
              /\ marker # NON_DUP_MARKER

\* C36: in the file generate wrote, the first 8 bytes are the number of metas,
\* duplicates included, as a little-endian u64; after them stands one entry for every
\* meta, in the order of the metas, and after the last one the instruction data's
\* length; the entry of a key met first is a full record with is_signer and
\* is_writable of that meta and owner, lamports, data, executable and rent_epoch of
\* the provided account; the entry of a key met before is 8 bytes whatever the flags
\* of its meta.
C36_OneEntryPerMeta ==
  (calc.fn = "generate" /\ calc.result.ok) =>
    LET metas == calc.instruction.accounts
        entries == ExpectedEntries(metas, calc.accounts)
        bytes == DecodeHex(WrittenFile.content)
        end == EntryOffset(entries, Len(metas) + 1)
    IN /\ BytesAt(bytes, 0, to_le_bytes(Len(metas), 8))
       /\ \A i \in 1 .. Len(metas) :
            LET at == EntryOffset(entries, i)
                next == EntryOffset(entries, i + 1)
                provided == ProvidedFor(calc.accounts, metas[i].pubkey)
            IN IF FirstIndex(metas, i) = i
               THEN /\ BytesAt(bytes, at,
                               <<NON_DUP_MARKER, bool_as_u8(metas[i].is_signer),
                                 bool_as_u8(metas[i].is_writable),
                                 bool_as_u8(provided.executable), 0, 0, 0, 0>>)
                    /\ BytesAt(bytes, at + 8, metas[i].pubkey)
                    /\ BytesAt(bytes, at + 40, provided.owner)
                    /\ BytesAt(bytes, at + 72, to_le_bytes(provided.lamports, 8))
                    /\ BytesAt(bytes, at + 80, to_le_bytes(Len(provided.data), 8))
                    /\ BytesAt(bytes, at + 88, provided.data)
                    /\ BytesAt(bytes, next - 8, to_le_bytes(provided.rent_epoch, 8))
               ELSE /\ next = at + 8
                    /\ ByteAt(bytes, at) # NON_DUP_MARKER
                    /\ BytesAt(bytes, at + 1, <<0, 0, 0, 0, 0, 0, 0>>)
       /\ BytesAt(bytes, end, to_le_bytes(Len(calc.instruction.data), 8))
       /\ RunsLen(bytes) = end + 8 + Len(calc.instruction.data) + PUBKEY_BYTES

\* C36 happens: generate wrote the file for metas in which a key stands twice with
\* other flags the second time, between and after metas of other keys.
C36_Witness ==
  /\ calc.fn = "generate"
  /\ calc.result.ok
  /\ LET metas == calc.instruction.accounts
     IN /\ Len(metas) = 3
        /\ metas[3].pubkey = metas[1].pubkey
        /\ metas[3].is_signer # metas[1].is_signer
        /\ metas[3].is_writable # metas[1].is_writable
        /\ metas[2].pubkey # metas[1].pubkey
        /\ BytesAt(DecodeHex(WrittenFile.content), 0, <<3, 0, 0, 0, 0, 0, 0, 0>>)

\* C37: after any sequence of line rows the tables pc -> line, pc -> SourceLocation
\* and the two maps between DWARF addresses and PCs have the same keys, the two maps
\* are the identity on them, and for every such PC the line of its source location is
\* its line_for_pc: both are those of the last row read for it.
C37_PerPcTablesAgree ==
  calc.fn = "from_elf_data" =>
    LET m == calc.map
        keys == DOMAIN m.address_to_line
        LastRow(P) == calc.rows[CHOOSE i \in 1 .. Len(calc.rows) :
                                  /\ calc.rows[i].address = P
                                  /\ \A j \in (i + 1) .. Len(calc.rows) : calc.rows[j].address # P]
    IN /\ DOMAIN m.source_locations = keys
       /\ DOMAIN m.dwarf_to_pc = keys
       /\ DOMAIN m.pc_to_dwarf = keys
       /\ keys = {calc.rows[i].address : i \in 1 .. Len(calc.rows)}
       /\ \A P \in keys :
            /\ m.dwarf_to_pc[P] = P
            /\ m.pc_to_dwarf[P] = P
            /\ get_source_location(m, P).some
            /\ LineMap_get_line_for_pc(m, P) = Some(get_source_location(m, P).val.line)
            /\ LineMap_get_line_for_pc(m, P) = Some(LastRow(P).line)
       /\ \A P \in PcVals \ keys :
            /\ ~get_source_location(m, P).some
            /\ LineMap_get_line_for_pc(m, P) = None

\* C37 happens: the rows gave one address two lines, and another address one.
C37_Witness ==
  /\ calc.fn = "from_elf_data"
  /\ Len(calc.rows) = 3
  /\ calc.rows[1].address = calc.rows[3].address
  /\ calc.rows[1].line # calc.rows[3].line
  /\ calc.rows[2].address # calc.rows[1].address
  /\ get_source_location(calc.map, calc.rows[1].address).val.line = calc.rows[3].line

\* ------------------------------------------------------------- the adapter's output
\* run_adapter_loop: writeln!(stdout, ..) or stdout.flush() returns Err (the reader
\* of the responses has gone) and unwrap() panics.  The line has been handled, or
\* the run() of a continue has returned, and the response is not written.
adapter_write_failed ==
  /\ front.kind = "adapter"
  /\ \/ /\ front.alive
        /\ ~running
        /\ \E line \in AdapterLines :
             \E o \in TurnOutcomes(dbg, RunsEngine(line)) :
               LET h == handle_line(dbg, line, o)
               IN /\ h.response.some
                  /\ dbg' = h.d
                  /\ event' = h.ev
                  /\ front' = [front EXCEPT !.alive = FALSE, !.panicked = TRUE,
                                            !.response = NoResponse,
                                            !.quit = @ \/ h.op = "quit"]
     \/ /\ running
        /\ \E o \in FrontOutcomes(dbg) :
             LET r == run_Continue(dbg, o)
             IN /\ r.ev # NoEvent
                /\ dbg' = r.d
                /\ event' = r.ev
                /\ front' = [front EXCEPT !.alive = FALSE, !.panicked = TRUE,
                                          !.response = NoResponse, !.request_id = NoneJ]
  /\ running' = FALSE
  /\ nexec' = 0
  /\ xpc' = None
  /\ calc' = calc

\* The adapter's loop with a standard output that can fail.
PipeInit ==
  /\ FrontInit
  /\ front.kind = "adapter"

PipeNext ==
  \/ adapter_line
  \/ adapter_continue_loop
  \/ adapter_eof
  \/ adapter_write_failed

PipeSpec == PipeInit /\ [][PipeNext]_vars

\* What a turn of the loop does with each line it may read: no arm leaves the loop; a
\* blank line gets no response and reaches no operation; any other line gets one
\* response with its requestId, in this turn unless its run() is still in its loop.
LinesAnsweredInTurn ==
  (front.kind = "adapter" /\ front.alive /\ ~running) =>
    \A line \in AdapterLines :
      \A o \in TurnOutcomes(dbg, RunsEngine(line)) :
        LET h == handle_line(dbg, line, o)
        IN /\ ~h.ends
           /\ line.blank => h.response = NoResponse /\ h.d = dbg /\ ~h.running
           /\ ~line.blank =>
                /\ h.response.some # h.running
                /\ h.running => h.op = "continue"
                /\ h.response.some =>
                     h.response.val.request_id =
                       (IF from_str(line).ok THEN RequestIdOf(line) ELSE NoneJ)

\* While the run() of a continue is in its loop no line is read, and the response
\* to the continue is what is written next; failed tells whether a write may fail.
ContinueAnsweredNext(failed) ==
  (front.kind = "adapter" /\ running) =>
    \/ running' /\ front'.alive /\ front'.response = NoResponse
                /\ front'.request_id = front.request_id
    \/ /\ ~running'
       /\ front'.alive
       /\ front'.response.some
       /\ front'.response.val.request_id = front.request_id
    \/ failed /\ front'.panicked

\* The loop is left with no line handled.
EndOfInput ==
  /\ ~running
  /\ ~front'.panicked
  /\ dbg' = dbg
  /\ event' = event
  /\ front'.response = front.response
  /\ front'.quit = front.quit

C38_WitnessPanic ==
  /\ front.kind = "adapter"
  /\ front.panicked
  /\ ~front.alive
  /\ event # NoEvent
  /\ front.response = NoResponse

\* ------------------------------------------------------------- requests without args
\* The adapter commands that take arguments.
ArgCommands ==
  {"setBreakpoint", "removeBreakpoint", "clearBreakpoints", "getMemory", "setRegister"}

\* Requests for them with args absent and with args null, with and without a
\* requestId.
NoArgsRequests ==
  {Request(command, args, request_id) :
     command \in ArgCommands, args \in {NoneJ, Some(JNull)},
     request_id \in {NoneJ, Some(JNum(42))}}

\* C39: a request for setBreakpoint, removeBreakpoint, clearBreakpoints, getMemory or
\* setRegister whose args are absent or null is answered with success = false and
\* the error "Missing args", and no facade operation runs: the engine, its
\* breakpoints and registers among the rest, is as before.
C39_MissingArgs ==
  (front.kind = "adapter" /\ front.alive /\ ~running) =>
    \A line \in NoArgsRequests :
      \A o \in TurnOutcomes(dbg, RunsEngine(line)) :
        LET h == handle_line(dbg, line, o)
        IN /\ h.response.some
           /\ ~h.response.val.success
           /\ h.response.val.error = Some("Missing args")
           /\ h.response.val.request_id = RequestIdOf(line)
           /\ h.op = "none"
           /\ h.d = dbg
           /\ h.d.breakpoints = dbg.breakpoints
           /\ h.d.line_breakpoints = dbg.line_breakpoints
           /\ h.d.reg = dbg.reg
           /\ h.ev = NoEvent
           /\ ~h.running

\* C39 happens: with a breakpoint set and a register written, the adapter has
\* answered a setBreakpoint without args.
C39_Witness ==
  /\ front.kind = "adapter"
  /\ front.alive
  /\ ~running
  /\ dbg.breakpoints # {}
  /\ dbg.reg[0] = 1
  /\ front.response.some
  /\ ~front.response.val.success
  /\ front.response.val.error = Some("Missing args")
  /\ front.response.val.request_id = Some(JNum(42))

\* ------------------------------------------------------------- REPL break
\* The break lines looked at: those typed at the REPL, and ones whose argument is
\* the decimal text of a PC of the program, a hexadecimal text, and a negative one.
BreakLines ==
  {cmd \in ReplLines : Len(cmd) >= 2 /\ cmd[1] = "break"}
  \cup {<<"break", ToString(pc)>> : pc \in PcVals}
  \cup {<<"break", "0x8">>, <<"break", "-1">>}

\* C40: break tries its argument as a line number first and as a PC only if that
\* fails.  An argument that parses as a line gets set_breakpoint_at_line for it: the
\* PCs added are those of pcs_for_line, the literal value among them only if it is
\* one of those, text of a valid PC or not.  set_breakpoint is called only for an
\* argument that is no line number but a PC.  An argument that is neither changes no
\* breakpoint.  Nothing else of the engine changes.
C40_BreakLineFirst ==
  (front.kind = "repl" /\ front.alive /\ ~running) =>
    \A cmd \in BreakLines :
      \A o \in TurnOutcomes(dbg, FALSE) :
        LET h == repl_command(dbg, cmd, o)
            line == parse_usize(cmd[2])
            pc == parse_u64(cmd[2])
            added == h.d.breakpoints \ dbg.breakpoints
        IN /\ line.some =>
                /\ h.d = set_breakpoint_at_line(dbg, line.val)
                /\ added \subseteq PcsOf(dbg, line.val)
                /\ PcsOf(dbg, line.val) # {} =>
                     /\ PcsOf(dbg, line.val) \subseteq h.d.breakpoints
                     /\ line.val \in h.d.line_breakpoints
                /\ (line.val \in added) => line.val \in PcsOf(dbg, line.val)
           /\ (~line.some /\ pc.some) => h.d = set_breakpoint(dbg, pc.val)
           /\ (~line.some /\ ~pc.some) => h.d = dbg
           /\ (added # {} /\ added # PcsOf(dbg, line.val) \ dbg.breakpoints) =>
                ~line.some /\ pc.some /\ added = {pc.val}
           /\ [h.d EXCEPT !.breakpoints = dbg.breakpoints,
                          !.line_breakpoints = dbg.line_breakpoints] = dbg
           /\ h.ev = NoEvent
           /\ ~h.running
           /\ ~h.ends

\* C40 happens: the REPL has handled break for the last line, whose PCs are now the
\* breakpoints, the literal value not among them.
C40_Witness ==
  /\ front.kind = "repl"
  /\ front.alive
  /\ ~running
  /\ dbg.line_breakpoints = {MaxLine}
  /\ dbg.breakpoints = PcsOf(dbg, MaxLine)
  /\ dbg.breakpoints # {}
  /\ MaxLine \notin dbg.breakpoints

====
